---- MODULE Spec2Model ----
(***************************************************************************)
(* Verification model of TGScanner's discovery-and-evaluation pipeline:    *)
(*   - retry_with_backoff      (find_toi.py, find_magazine.py)             *)
(*   - the deduplication step of MagazineSearcher.scan_channels            *)
(*   - MagazineSearcher.evaluate_candidates with its on-disk cache         *)
(*   - a run of find_magazine.py under the GUI (toi_gui.py)                *)
(*   - a run of find_toi.py                                                *)
(*   - the window of toi_gui.py with its search threads                    *)
(*   - the helper functions compile_matchers, _is_likely_english and the   *)
(*     cache key                                                           *)
(* Strings are sequences of characters (of words, for exception texts), so *)
(* that formatting, comparison and substring tests are computed the way    *)
(* Python computes them.                                                   *)
(***************************************************************************)
EXTENDS Integers, Sequences, FiniteSets, TLC

VARIABLES
    \* ---- retry_with_backoff ----
    max_retries,    \* keyword argument max_retries
    initial_delay,  \* keyword argument initial_delay
    attempt,        \* loop variable of "for attempt in range(max_retries)"
    delay,          \* local variable delay
    rpc,            \* "idle" | "loop" | "returned" | "raised" | "killed"
    retval,         \* value returned to the caller (None when it falls through)
    raised,         \* exception that left retry_with_backoff, or NoError
    calls,          \* number of times func was awaited
    slept,          \* the delays passed to asyncio.sleep, in order
    failures,       \* number of lock failures handled by the except clause
    lastError,      \* the exception of the most recent failed await, or NoError
    \* ---- scan_channels: the deduplication step ----
    candidates,     \* the list "candidates" built by the scan loop
    dpc,            \* "idle" | "scanning" | "scanned" | "deduped" | "again" |
                    \* "shuffled" | "raised" | "killed"
    result,         \* list(deduped.values()) returned by scan_channels
    resultAgain,    \* the step applied to its own output
    shuffled,       \* a permutation of candidates
    resultShuffled, \* the step applied to the permutation
    \* ---- evaluate_candidates and the files of CACHE_DIR ----
    cache_files,    \* CACHE_DIR: file name (digest) -> content of the file
    cache_enabled,  \* self.cache_enabled
    user_keywords,  \* argument user_keywords (the criteria string)
    evaluated,      \* argument candidates (the list scan_channels returned)
    ai_decision,    \* c['ai_decision'] of each candidate, NoDecision if unset
    results,        \* local list results, as positions in the argument
    to_evaluate,    \* local list to_evaluate, as positions in the argument
    epc,            \* "idle" | "lookup" | "batches" | "batch" | "done" |
                    \* "raised" | "killed"
    li,             \* position of the first loop, 1-based
    i,              \* loop variable i of the batch loop
    decisions,      \* local dict decisions
    idx,            \* loop variable idx of the inner loop
    runs,           \* number of runs started
    sent,           \* (criteria, filename, size) -> number of times sent to
                    \* the classifier by runs with the cache enabled
    sentStored,     \* a candidate was sent while its cache file existed
    group,          \* per candidate of this run: "none" | "hit" | "failed" |
                    \* "covered" | "uncovered"
    stored,         \* (criteria, filename, size) -> the decision handed to
                    \* json.dump for it
    callLog,        \* the calls of _call_gemini_batch of this run, in order:
                    \* the batch, the metadata_list sent, the outcome
    match_log,      \* the [MATCH] lines this run has logged, in order
    \* ---- find_magazine.main, started by the GUI ----
    dialogs,        \* what client.iter_dialogs() yields, in order
    limit,          \* args.limit
    di,             \* position of "async for dialog", 1-based
    mpc,            \* "idle" | "connecting" | "scanning" | "evaluating" | "saved" |
                    \* "raising" | "exited" | "killed"
    client,         \* searcher.client: "new" | "started" | "disconnected"
    outputs,        \* the result files save_outputs has written
    stop_search_flag, \* TOIFinderGUI.stop_search_flag
    process,        \* TOIFinderGUI.process: "none" | "running" | "exited" |
                    \* "terminated"
    \* ---- find_toi.main and find_matching_files ----
    env,            \* "ok" | "bad_date" | "no_telethon" | "no_credentials" |
                    \* "no_session": the arguments and the environment
    ai_query,       \* args.ai_query, empty when not given
    toi_dialogs,    \* what client.iter_dialogs() yields, in order
    ti,             \* position of "async for dialog", 1-based
    fpc,            \* "idle" | "start" | "connecting" | "scanning" | "caught" |
                    \* "filter" | "rank" | "finally" | "exited"
    matches,        \* local list matches
    connected,      \* the client is connected
    disconnects,    \* number of times client.disconnect() was awaited
    return_code,    \* the value find_matching_files is returning, -1 if none
    exit_code,      \* the value main returned to sys.exit, -1 while running
    scan_error,     \* an exception was raised inside the scanning try block
    listing,        \* the matches listed by the summary, in order
    toi_log,        \* the [MATCH] lines find_toi has logged, in order
    ai_outcome,     \* ai_filter_matches: "none" (not called) | "answered" |
                    \* "failed" (exception) | "no_key" (no API key, no genai)
    \* ---- one call of a helper function ----
    fn_call,        \* the function called and its arguments
    fn_result,      \* what the call returned, NoResult before it returns
    \* ---- toi_gui.py: the window and its search threads ----
    search_button,  \* state of self.search_button: "normal" | "disabled"
    stop_btn,       \* state of self.stop_btn: "normal" | "disabled"
    self_process,   \* self.process: 0 for None, else the search whose Popen it is
    threads,        \* position of each run_search thread: "unborn" | "begin" |
                    \* "spawned" | "bound" | "reading" | "finally" |
                    \* "finally_stop" | "finally_process" | "dead"
    procs,          \* the subprocess of each search: "none" | "running" |
                    \* "exited" | "terminated"
    after_queue,    \* callbacks passed to root.after(0, ...) and not yet run
    started,        \* number of run_search threads started
    stop_enabled    \* searches whose Stop button callback (line 281) has run

retryVars == <<max_retries, initial_delay, attempt, delay, rpc, retval, raised,
               calls, slept, failures, lastError>>

dedupVars == <<candidates, dpc, result, resultAgain, shuffled, resultShuffled>>

evalVars == <<cache_files, cache_enabled, user_keywords, evaluated, ai_decision,
              results, to_evaluate, epc, li, i, decisions, idx, runs, sent,
              sentStored, group, stored, callLog, match_log>>

scanVars == <<dialogs, limit, di, mpc, client, outputs, stop_search_flag, process>>

toiVars == <<env, ai_query, toi_dialogs, ti, fpc, matches, connected, disconnects,
             return_code, exit_code, scan_error, listing, toi_log, ai_outcome>>

helperVars == <<fn_call, fn_result>>

guiVars == <<search_button, stop_btn, self_process, threads, procs, after_queue,
             started, stop_enabled>>

vars == <<retryVars, dedupVars, evalVars, scanVars, toiVars, helperVars, guiVars>>

(***************************************************************************)
(* Bounds of the model and constants of the program                        *)
(***************************************************************************)
DefaultMaxRetries == 5
DefaultInitialDelay == 1
ExtraBudget == 1
MaxInitialDelay == 2
MaxScanned == 3
MaxRuns == 2
MaxCandidates == 2
MaxGroups == 3
batch_size == 10
DefaultLimit == 500
JunkProbe == 20
MaxMessages == 3
MaxDialogs == 2

\* searches started in one session of the window
MaxThreads == 2

None == "None"
\* "no exception": a record, so that it compares with the exceptions
NoError == [type |-> "NoError", msg |-> <<>>]

(***************************************************************************)
(* Strings                                                                 *)
(***************************************************************************)
\* needle occurs in hay as a contiguous substring (Python's "in" on str)
Contains(hay, needle) ==
    \E x \in 0..(Len(hay) - Len(needle)) :
        \A j \in 1..Len(needle) : hay[x + j] = needle[j]

\* the characters the model uses, in code point order
CodePoints == <<"0", "1", "2", "3", "4", "5", "6", "7", "8", "9", ":", "T",
                "a", "k", "n", "t">>

Ord(ch) == CHOOSE x \in 1..Len(CodePoints) : CodePoints[x] = ch

\* Python's a > b on str: code point order, a proper prefix is smaller
StrGreater(a, b) ==
    \E x \in 1..Len(a) :
        /\ \A j \in 1..(x - 1) : j <= Len(b) /\ a[j] = b[j]
        /\ (x > Len(b) \/ Ord(a[x]) > Ord(b[x]))

\* str(n) for a natural number n
RECURSIVE IntToStr(_)
IntToStr(n) ==
    IF n < 10 THEN <<CodePoints[n + 1]>>
    ELSE IntToStr(n \div 10) \o <<CodePoints[(n % 10) + 1]>>

\* a field of isoformat(): two digits, zero-padded
Pad2(n) == IF n < 10 THEN <<"0">> \o IntToStr(n) ELSE IntToStr(n)

Range(seq) == {seq[x] : x \in 1..Len(seq)}

LockedText == <<"database", " ", "is", " ", "locked">>

\* str.lower(), on the letters the model uses
Uppers == <<"A", "B", "C", "D", "E", "F", "G", "H", "I", "J", "K", "L", "M",
           "N", "O", "P", "Q", "R", "S", "T", "U", "V", "W", "X", "Y", "Z">>
Lowers == <<"a", "b", "c", "d", "e", "f", "g", "h", "i", "j", "k", "l", "m",
           "n", "o", "p", "q", "r", "s", "t", "u", "v", "w", "x", "y", "z">>
LowerChar(ch) ==
    IF \E x \in 1..Len(Uppers) : Uppers[x] = ch
    THEN Lowers[CHOOSE x \in 1..Len(Uppers) : Uppers[x] = ch]
    ELSE ch
Lower(str) == [x \in 1..Len(str) |-> LowerChar(str[x])]

\* str.endswith(suffix)
EndsWith(str, suffix) ==
    /\ Len(suffix) <= Len(str)
    /\ SubSeq(str, Len(str) - Len(suffix) + 1, Len(str)) = suffix

\* pathlib's Path(name).suffix for a name without directory: from the last
\* dot, unless that dot is the first or the last character
Suffix(name) ==
    LET dots == { x \in 1..Len(name) : name[x] = "." }
        last == CHOOSE x \in dots : \A j \in dots : j <= x
    IN  IF dots = {} THEN <<>>
        ELSE IF last > 1 /\ last < Len(name) THEN SubSeq(name, last, Len(name))
        ELSE <<>>

\* seq[:n]
Take(seq, n) == SubSeq(seq, 1, IF n < Len(seq) THEN n ELSE Len(seq))

\* str.strip(): leading and trailing whitespace removed
Whitespace == { " ", "\t", "\n" }
Strip(str) ==
    LET solid == { x \in 1..Len(str) : str[x] \notin Whitespace }
    IN  IF solid = {} THEN <<>>
        ELSE SubSeq(str, CHOOSE x \in solid : \A j \in solid : x <= j,
                         CHOOSE x \in solid : \A j \in solid : j <= x)

\* int(str) for a string of decimal digits
IsDigits(str) ==
    Len(str) >= 1 /\ \A x \in 1..Len(str) : \E n \in 1..10 : CodePoints[n] = str[x]
RECURSIVE StrToInt(_)
StrToInt(str) ==
    IF str = <<>> THEN 0
    ELSE 10 * StrToInt(SubSeq(str, 1, Len(str) - 1)) + (Ord(str[Len(str)]) - 1)

(***************************************************************************)
(* retry_with_backoff                                                      *)
(***************************************************************************)
\* what one await of func can do: return a value or raise
SuccessValue == "started"

Errors ==
    { [type |-> "OperationalError", msg |-> LockedText],
      [type |-> "OperationalError", msg |-> <<"sqlite", ":", " ">> \o LockedText],
      [type |-> "OperationalError", msg |-> <<"disk", " ", "is", " ", "full">>],
      [type |-> "OperationalError", msg |-> <<"database", " ", "locked">>],
      [type |-> "ConnectionError", msg |-> LockedText] }

\* "except sqlite3.OperationalError as e" catches e
Caught(e) == e.type = "OperationalError"

\* the negation of 'if "database is locked" not in str(e): raise'
MutAnyMessageIsLock(e) == TRUE
IsLockMessage(e) == Contains(e.msg, LockedText)

\* "if attempt == max_retries - 1"
MutLastAttemptOffByOne(a, n) == a = n
IsLastAttempt(a, n) == a = n - 1

\* "delay *= 2"
MutDelayGrowsByOne(d) == d + 1
NextDelay(d) == d * 2

Transient(e) == Caught(e) /\ IsLockMessage(e)

InitRetry ==
    /\ max_retries \in (-1)..(DefaultMaxRetries + ExtraBudget)
    /\ initial_delay \in DefaultInitialDelay..MaxInitialDelay
    /\ attempt = 0
    /\ delay = initial_delay
    /\ rpc = "loop"
    /\ retval = None
    /\ raised = NoError
    /\ calls = 0
    /\ slept = <<>>
    /\ failures = 0
    /\ lastError = NoError

retryFrame == <<dedupVars, evalVars, scanVars, toiVars, helperVars, guiVars>>

RetryIdle ==
    /\ max_retries = DefaultMaxRetries
    /\ initial_delay = DefaultInitialDelay
    /\ attempt = 0
    /\ delay = initial_delay
    /\ rpc = "idle"
    /\ retval = None
    /\ raised = NoError
    /\ calls = 0
    /\ slept = <<>>
    /\ failures = 0
    /\ lastError = NoError

\* "return await func(*args, **kwargs)" succeeds
AttemptReturns ==
    /\ rpc = "loop"
    /\ attempt < max_retries
    /\ calls' = calls + 1
    /\ retval' = SuccessValue
    /\ rpc' = "returned"
    /\ UNCHANGED <<max_retries, initial_delay, attempt, delay, raised, slept, failures,
                   lastError>>
    /\ UNCHANGED retryFrame

\* func raises something the except clause does not catch, or an
\* OperationalError whose text is not the lock text: it propagates
AttemptPropagates ==
    /\ rpc = "loop"
    /\ attempt < max_retries
    /\ \E e \in Errors :
        /\ ~Transient(e)
        /\ raised' = e
        /\ lastError' = e
    /\ calls' = calls + 1
    /\ rpc' = "raised"
    /\ UNCHANGED <<max_retries, initial_delay, attempt, delay, retval, slept, failures>>
    /\ UNCHANGED retryFrame

\* func raises the lock error on the last attempt of the budget: re-raised
AttemptRaisesPersistent ==
    /\ rpc = "loop"
    /\ attempt < max_retries
    /\ \E e \in Errors :
        /\ Transient(e)
        /\ IsLastAttempt(attempt, max_retries)
        /\ raised' = e
        /\ lastError' = e
    /\ calls' = calls + 1
    /\ failures' = failures + 1
    /\ rpc' = "raised"
    /\ UNCHANGED <<max_retries, initial_delay, attempt, delay, retval, slept>>
    /\ UNCHANGED retryFrame

\* func raises the lock error before the last attempt: sleep, double, loop
AttemptRetries ==
    /\ rpc = "loop"
    /\ attempt < max_retries
    /\ \E e \in Errors :
        /\ Transient(e)
        /\ ~IsLastAttempt(attempt, max_retries)
        /\ lastError' = e
    /\ calls' = calls + 1
    /\ failures' = failures + 1
    /\ slept' = Append(slept, delay)
    /\ delay' = NextDelay(delay)
    /\ attempt' = attempt + 1
    /\ UNCHANGED <<max_retries, initial_delay, rpc, retval, raised>>
    /\ UNCHANGED retryFrame

\* range(max_retries) is exhausted: the function ends without a return
\* statement, which returns None
LoopFallsThrough ==
    /\ rpc = "loop"
    /\ attempt >= max_retries
    /\ rpc' = "returned"
    /\ retval' = None
    /\ UNCHANGED <<max_retries, initial_delay, attempt, delay, raised, calls, slept, failures,
                   lastError>>
    /\ UNCHANGED retryFrame

NextRetry ==
    \/ AttemptReturns
    \/ AttemptPropagates
    \/ AttemptRaisesPersistent
    \/ AttemptRetries
    \/ LoopFallsThrough

(***************************************************************************)
(* scan_channels: deduplication by filename + size                         *)
(***************************************************************************)
Filenames == { <<"n">>, <<"t">> }
Sizes == { 5, 10 }
\* msg.date, in hours since the start of the month (Telegram dates are UTC)
Times == { 9, 10, 33 }

\* msg.date.isoformat(), reduced to its day and hour fields: "DDTHH"
IsoFormat(t) == Pad2((t \div 24) + 1) \o <<"T">> \o Pad2(t % 24)

\* a Telegram message with a document: msg.id, msg.date, the file_name of
\* its DocumentAttributeFilename (empty when it has none), document.size,
\* msg.message (the caption), and what detect() of langdetect, seeded,
\* reports for "filename caption"
Message(id, fn, sz, t, text, lang) ==
    [ id |-> id, date |-> t, file_name |-> fn, size |-> sz, message |-> text,
      lang |-> lang ]

\* f"tg://openmessage?chat_id={channel_id}&message_id={msg_id}"
DeepLink(channel_id, msg_id) ==
    <<"tg://openmessage?chat_id=">> \o IntToStr(channel_id)
        \o <<"&message_id=">> \o IntToStr(msg_id)

\* the dict _extract_candidate returns for msg of the channel
CandidateDict(msg, channel_name, channel_id) ==
    [ msg_id |-> msg.id, channel_id |-> channel_id, channel_name |-> channel_name,
      filename |-> msg.file_name, size |-> msg.size, date |-> IsoFormat(msg.date),
      caption |-> msg.message, message |-> msg,
      link |-> DeepLink(channel_id, msg.id) ]

\* the candidate of message number id of channel 1, which has no caption
Candidate(id, fn, sz, t) ==
    CandidateDict(Message(id, fn, sz, t, <<>>, "en"), <<"c">>, 1)

\* "key = (c['filename'], c['size'])"
Key(c) == <<c.filename, c.size>>

\* a Python dict is an insertion-ordered list of <<key, value>> pairs
HasKey(d, k) == \E x \in 1..Len(d) : d[x][1] = k
Get(d, k) == d[CHOOSE x \in 1..Len(d) : d[x][1] = k][2]
\* d[k] = v : an existing key keeps its position
DictSet(d, k, v) ==
    IF HasKey(d, k)
    THEN [x \in 1..Len(d) |-> IF d[x][1] = k THEN <<k, v>> ELSE d[x]]
    ELSE Append(d, <<k, v>>)
\* list(d.values())
DictValues(d) == [x \in 1..Len(d) |-> d[x][2]]

\* "c['date'] > deduped[key]['date']": the ISO strings are compared
MutOlderWins(c, kept) == StrGreater(kept.date, c.date)
Newer(c, kept) == StrGreater(c.date, kept.date)

\* one iteration of "for c in candidates"
DedupOne(deduped, c) ==
    IF ~HasKey(deduped, Key(c)) \/ Newer(c, Get(deduped, Key(c)))
    THEN DictSet(deduped, Key(c), c)
    ELSE deduped

RECURSIVE DedupLoop(_, _)
DedupLoop(deduped, cands) ==
    IF cands = <<>> THEN deduped
    ELSE DedupLoop(DedupOne(deduped, Head(cands)), Tail(cands))

\* lines 122-130: deduped = {}; the loop; return list(deduped.values())
MutDedupSkipsFirst(cands) ==
    DictValues(DedupLoop(<<>>, IF cands = <<>> THEN cands ELSE Tail(cands)))
Dedup(cands) == DictValues(DedupLoop(<<>>, cands))

\* the permutations of a sequence
PermutationsOf(seq) ==
    { [x \in 1..Len(seq) |-> seq[p[x]]] :
        p \in { q \in [1..Len(seq) -> 1..Len(seq)] :
                  \A x, j \in 1..Len(seq) : q[x] = q[j] => x = j } }

dedupFrame == <<retryVars, evalVars, scanVars, toiVars, helperVars, guiVars>>

DedupIdle ==
    /\ candidates = <<>>
    /\ dpc = "idle"
    /\ result = <<>>
    /\ resultAgain = <<>>
    /\ shuffled = <<>>
    /\ resultShuffled = <<>>

\* the scan loop has appended one candidate per qualifying message; message
\* ids are distinct
InitDedup ==
    /\ \E n \in 0..MaxScanned :
         candidates \in
           { [x \in 1..n |-> Candidate(x, f[x][1], f[x][2], f[x][3])] :
               f \in [1..n -> Filenames \X Sizes \X Times] }
    /\ dpc = "scanned"
    /\ result = <<>>
    /\ resultAgain = <<>>
    /\ shuffled = <<>>
    /\ resultShuffled = <<>>

\* scan_channels deduplicates what it collected and returns
DedupStep ==
    /\ dpc = "scanned"
    /\ result' = Dedup(candidates)
    /\ dpc' = "deduped"
    /\ UNCHANGED <<candidates, resultAgain, shuffled, resultShuffled>>
    /\ UNCHANGED dedupFrame

\* the step applied to its own output
DedupAgain ==
    /\ dpc = "deduped"
    /\ resultAgain' = Dedup(result)
    /\ dpc' = "again"
    /\ UNCHANGED <<candidates, result, shuffled, resultShuffled>>
    /\ UNCHANGED dedupFrame

\* the step applied to the same candidates met in another order
DedupShuffled ==
    /\ dpc = "deduped"
    /\ \E s \in PermutationsOf(candidates) :
        /\ shuffled' = s
        /\ resultShuffled' = Dedup(s)
    /\ dpc' = "shuffled"
    /\ UNCHANGED <<candidates, result, resultAgain>>
    /\ UNCHANGED dedupFrame

NextDedup ==
    \/ DedupStep
    \/ DedupAgain
    \/ DedupShuffled

(***************************************************************************)
(* evaluate_candidates                                                     *)
(***************************************************************************)
Criteria == { <<"k">> }

\* the documents a scan can return: each (filename, size) at most once
Documents == { Candidate(1, <<"n">>, 5, 9),
               Candidate(2, <<"n">>, 10, 10),
               Candidate(3, <<"t">>, 5, 9) }

\* the lists scan_channels can return: no (filename, size) key twice
ScanResults ==
    UNION { { s \in [1..n -> Documents] :
                \A a, b \in 1..n : Key(s[a]) = Key(s[b]) => a = b } :
            n \in 0..MaxCandidates }

Verdicts == { "RELEVANT", "NOT_RELEVANT", "UNCERTAIN" }

\* a decision object of the classifier; the confidence is in tenths
DecisionObject(v) == [decision |-> v, confidence |-> 9, reasons |-> <<"why">>]
ClassifierDecisions == { DecisionObject(v) : v \in Verdicts }

\* c has no 'ai_decision' key yet
NoDecision == [unset |-> TRUE]

\* the default of decisions.get(str(idx), {"decision": "NOT_RELEVANT"})
MutDefaultUncertain == [decision |-> "UNCERTAIN"]
DefaultDecision == [decision |-> "NOT_RELEVANT"]

\* d.get(k): None when the key is missing
DictGet(d, k) == IF k \in DOMAIN d THEN d[k] ELSE None
\* "....get('decision') == 'RELEVANT'"
MutUncertainCounts(d) == DictGet(d, "decision") \in {"RELEVANT", "UNCERTAIN"}
IsRelevant(d) == DictGet(d, "decision") = "RELEVANT"
\* d.get('reasons', [])
ReasonsOf(d) == IF "reasons" \in DOMAIN d THEN d.reasons ELSE <<>>

\* hashlib.sha256(...).hexdigest(): an injective function of the text
Sha256(text) == <<"sha256", text>>

\* sha256 of f"{user_keywords}:{c['filename']}:{c['size']}"
MutKeyIgnoresSize(kw, c) == Sha256(kw \o <<":">> \o c.filename)
CacheKey(kw, c) == Sha256(kw \o <<":">> \o c.filename \o <<":">> \o IntToStr(c.size))

\* json.dump of a decision object: the members in the order of the dict
MemberOrder == <<"decision", "confidence", "reasons">>
MutDumpVerdictOnly(d) == << <<"{">>, <<"decision", d.decision>>, <<"}">> >>
JsonDump(d) ==
    LET keys == SelectSeq(MemberOrder, LAMBDA k : k \in DOMAIN d)
    IN  << <<"{">> >> \o [n \in 1..Len(keys) |-> <<keys[n], d[keys[n]]>>]
                     \o << <<"}">> >>

\* json.load: raises on a text that is no JSON, returns a dict for an object
JsonValid(text) ==
    /\ Len(text) >= 2
    /\ \/ text[1] = <<"{">> /\ text[Len(text)] = <<"}">>
       \/ text[1] = <<"[">> /\ text[Len(text)] = <<"]">>
JsonIsObject(text) == JsonValid(text) /\ text[1] = <<"{">>
JsonList == [list |-> <<>>]
JsonLoad(text) ==
    IF JsonIsObject(text)
    THEN [k \in {text[n][1] : n \in 2..(Len(text) - 1)} |->
            text[CHOOSE n \in 2..(Len(text) - 1) : text[n][1] = k][2]]
    ELSE JsonList

\* what a cache file can hold that json.dump of a decision did not write:
\* a write cut short, or another JSON value
DamagedTexts == { << <<"{">> >>, << <<"[">>, <<"]">> >> }

\* "self.cache_enabled and cache_path.exists()"
MutNeverExists(enabled, files, key) == FALSE
CacheHit(enabled, files, key) == enabled /\ key \in DOMAIN files

\* to_evaluate[i:i + batch_size], i 0-based
MutBatchTakesOneMore(todo, start) ==
    SubSeq(todo, start + 1, IF start + batch_size + 1 < Len(todo)
                            THEN start + batch_size + 1 ELSE Len(todo))
Batch(todo, start) ==
    SubSeq(todo, start + 1, IF start + batch_size < Len(todo)
                            THEN start + batch_size ELSE Len(todo))

\* the JSON objects the classifier can answer for a batch of n items when it
\* keeps the format the prompt asks for: any subset of the indices, as
\* strings, each with a decision object
Responses(n) ==
    UNION { [S -> ClassifierDecisions] : S \in SUBSET { IntToStr(j) : j \in 0..(n - 1) } }

\* decisions.get(str(idx), {"decision": "NOT_RELEVANT"})
DecisionFor(decs, n) ==
    IF IntToStr(n) \in DOMAIN decs THEN decs[IntToStr(n)] ELSE DefaultDecision

\* f"{size_mb:.2f}" of size / (1024 * 1024): the hundredths of a megabyte,
\* a half rounded to the even neighbour
SizeMB(size) ==
    LET q == (size * 100) \div 1048576
        r == (size * 100) % 1048576
    IN  IF 2 * r > 1048576 \/ (2 * r = 1048576 /\ q % 2 = 1) THEN q + 1 ELSE q

\* line 237: the fields of the [MATCH] line of c
MatchLine(c) ==
    [ filename |-> c.filename, channel |-> c.channel_name, size_mb |-> SizeMB(c.size),
      msg_id |-> c.msg_id, link |-> c.link ]

\* "self._log_match(c)"
MutLogMatchSilent(log, c) == log
LogMatch(log, c) == Append(log, MatchLine(c))

Triple(kw, c) == <<kw, c.filename, c.size>>
Triples == { Triple(kw, c) : kw \in Criteria, c \in Documents }

evalFrame == <<retryVars, dedupVars, scanVars, toiVars, helperVars, guiVars>>

EvalIdle ==
    /\ cache_files = <<>>
    /\ cache_enabled = TRUE
    /\ user_keywords = <<>>
    /\ evaluated = <<>>
    /\ ai_decision = <<>>
    /\ results = <<>>
    /\ to_evaluate = <<>>
    /\ epc = "idle"
    /\ li = 1
    /\ i = 0
    /\ decisions = <<>>
    /\ idx = 0
    /\ runs = 0
    /\ sent = [t \in Triples |-> 0]
    /\ sentStored = FALSE
    /\ group = <<>>
    /\ stored = <<>>
    /\ callLog = <<>>
    /\ match_log = <<>>

\* before the first run CACHE_DIR is empty or holds one damaged file
InitEval ==
    /\ \/ cache_files = <<>>
       \/ \E kw \in Criteria, c \in Documents, text \in DamagedTexts :
            cache_files = (CacheKey(kw, c) :> text)
    /\ cache_enabled = TRUE
    /\ user_keywords = <<>>
    /\ evaluated = <<>>
    /\ ai_decision = <<>>
    /\ results = <<>>
    /\ to_evaluate = <<>>
    /\ epc = "idle"
    /\ li = 1
    /\ i = 0
    /\ decisions = <<>>
    /\ idx = 0
    /\ runs = 0
    /\ sent = [t \in Triples |-> 0]
    /\ sentStored = FALSE
    /\ group = <<>>
    /\ stored = <<>>
    /\ callLog = <<>>
    /\ match_log = <<>>

\* a process constructs MagazineSearcher and calls evaluate_candidates:
\* "results = []; to_evaluate = []"
StartRun ==
    /\ epc = "idle"
    /\ runs < MaxRuns
    /\ runs' = runs + 1
    /\ cache_enabled' \in BOOLEAN
    /\ user_keywords' \in Criteria
    /\ evaluated' \in ScanResults
    /\ ai_decision' = [n \in 1..Len(evaluated') |-> NoDecision]
    /\ group' = [n \in 1..Len(evaluated') |-> "none"]
    /\ results' = <<>>
    /\ to_evaluate' = <<>>
    /\ li' = 1
    /\ i' = 0
    /\ idx' = 0
    /\ decisions' = <<>>
    /\ callLog' = <<>>
    /\ match_log' = <<>>
    /\ epc' = IF Len(evaluated') = 0 THEN "batches" ELSE "lookup"
    /\ UNCHANGED <<cache_files, sent, sentStored, stored>>
    /\ UNCHANGED evalFrame

\* the first loop goes on to the next candidate, or ends
AfterLookup ==
    /\ li' = li + 1
    /\ epc' = IF li + 1 > Len(evaluated) THEN "batches" ELSE "lookup"

\* lines 196-202: the cache file exists and holds a JSON object
LookupHit ==
    /\ epc = "lookup"
    /\ LET key == CacheKey(user_keywords, evaluated[li]) IN
        /\ CacheHit(cache_enabled, cache_files, key)
        /\ JsonIsObject(cache_files[key])
        /\ ai_decision' = [ai_decision EXCEPT ![li] = JsonLoad(cache_files[key])]
        /\ results' = IF IsRelevant(JsonLoad(cache_files[key]))
                      THEN Append(results, li) ELSE results
        /\ match_log' = IF IsRelevant(JsonLoad(cache_files[key]))
                        THEN LogMatch(match_log, evaluated[li]) ELSE match_log
    /\ group' = [group EXCEPT ![li] = "hit"]
    /\ AfterLookup
    /\ UNCHANGED <<cache_files, cache_enabled, user_keywords, evaluated, to_evaluate,
                   i, decisions, idx, runs, sent, sentStored, stored, callLog>>
    /\ UNCHANGED evalFrame

\* lines 196-198: the cache file exists and is no JSON: json.load raises
\* json.JSONDecodeError, which nothing in evaluate_candidates catches
LookupRaisesDecodeError ==
    /\ epc = "lookup"
    /\ LET key == CacheKey(user_keywords, evaluated[li]) IN
        /\ CacheHit(cache_enabled, cache_files, key)
        /\ ~JsonValid(cache_files[key])
    /\ epc' = "raised"
    /\ UNCHANGED <<cache_files, cache_enabled, user_keywords, evaluated, ai_decision,
                   results, to_evaluate, li, i, decisions, idx, runs, sent,
                   sentStored, group, stored, callLog, match_log>>
    /\ UNCHANGED evalFrame

\* lines 196-199: the cache file holds JSON that is no object: it is attached,
\* and .get on it raises AttributeError
LookupRaisesAttributeError ==
    /\ epc = "lookup"
    /\ LET key == CacheKey(user_keywords, evaluated[li]) IN
        /\ CacheHit(cache_enabled, cache_files, key)
        /\ JsonValid(cache_files[key])
        /\ ~JsonIsObject(cache_files[key])
        /\ ai_decision' = [ai_decision EXCEPT ![li] = JsonLoad(cache_files[key])]
    /\ epc' = "raised"
    /\ UNCHANGED <<cache_files, cache_enabled, user_keywords, evaluated,
                   results, to_evaluate, li, i, decisions, idx, runs, sent,
                   sentStored, group, stored, callLog, match_log>>
    /\ UNCHANGED evalFrame

\* line 204: no cache file, or the cache is off: to_evaluate.append(c)
LookupMiss ==
    /\ epc = "lookup"
    /\ ~CacheHit(cache_enabled, cache_files, CacheKey(user_keywords, evaluated[li]))
    /\ to_evaluate' = Append(to_evaluate, li)
    /\ AfterLookup
    /\ UNCHANGED <<cache_files, cache_enabled, user_keywords, evaluated, ai_decision,
                   results, i, decisions, idx, runs, sent, sentStored, group, stored,
                   callLog, match_log>>
    /\ UNCHANGED evalFrame

\* lines 211-214: the metadata_list of a batch: "id" is the index in the batch
MetadataList(batch) ==
    [b \in 1..Len(batch) |->
        [ id |-> b - 1, filename |-> evaluated[batch[b]].filename,
          caption |-> evaluated[batch[b]].caption ]]

\* what a call of _call_gemini_batch for the batch at i records
CallSends(answer, status) ==
    LET batch == Batch(to_evaluate, i) IN
    /\ decisions' = answer
    /\ callLog' = Append(callLog, [ members |-> batch, items |-> MetadataList(batch),
                                    failed |-> (status[1] = "failed"),
                                    answer |-> answer ])
    /\ sent' = [t \in Triples |->
                  IF cache_enabled /\ \E n \in Range(batch) :
                                         Triple(user_keywords, evaluated[n]) = t
                  THEN sent[t] + 1 ELSE sent[t]]
    /\ sentStored' = (sentStored \/
                        (cache_enabled /\ \E n \in Range(batch) :
                            CacheKey(user_keywords, evaluated[n]) \in DOMAIN cache_files))
    /\ group' = [n \in 1..Len(evaluated) |->
                   IF \E b \in 1..Len(batch) : batch[b] = n
                   THEN status[CHOOSE b \in 1..Len(batch) : batch[b] = n]
                   ELSE group[n]]
    /\ idx' = 0
    /\ epc' = "batch"

\* lines 256-262: the classifier answers a JSON object
CallGeminiBatchAnswers ==
    /\ epc = "batches"
    /\ i < Len(to_evaluate)
    /\ \E answer \in Responses(Len(Batch(to_evaluate, i))) :
         CallSends(answer,
                   [b \in 1..Len(Batch(to_evaluate, i)) |->
                      IF IntToStr(b - 1) \in DOMAIN answer THEN "covered" ELSE "uncovered"])
    /\ UNCHANGED <<cache_files, cache_enabled, user_keywords, evaluated, ai_decision,
                   results, to_evaluate, li, i, runs, stored, match_log>>
    /\ UNCHANGED evalFrame

\* lines 263-265: the request or json.loads raises: "return {}"
MutFailurePropagates ==
    /\ epc = "batches"
    /\ i < Len(to_evaluate)
    /\ epc' = "raised"
    /\ UNCHANGED <<cache_files, cache_enabled, user_keywords, evaluated, ai_decision,
                   results, to_evaluate, li, i, decisions, idx, runs, sent,
                   sentStored, group, stored, callLog, match_log>>
    /\ UNCHANGED evalFrame
CallGeminiBatchFails ==
    /\ epc = "batches"
    /\ i < Len(to_evaluate)
    /\ CallSends(<<>>, [b \in 1..Len(Batch(to_evaluate, i)) |-> "failed"])
    /\ UNCHANGED <<cache_files, cache_enabled, user_keywords, evaluated, ai_decision,
                   results, to_evaluate, li, i, runs, stored, match_log>>
    /\ UNCHANGED evalFrame

\* lines 219-231: one iteration of "for idx, c in enumerate(batch)"
ProcessDecision ==
    /\ epc = "batch"
    /\ LET batch == Batch(to_evaluate, i)
           n == batch[idx + 1]
           c == evaluated[n]
           decision == DecisionFor(decisions, idx)
       IN
        /\ ai_decision' = [ai_decision EXCEPT ![n] = decision]
        /\ IF cache_enabled
           THEN /\ cache_files' = (CacheKey(user_keywords, c) :> JsonDump(decision))
                                    @@ cache_files
                /\ stored' = (Triple(user_keywords, c) :> decision) @@ stored
           ELSE UNCHANGED <<cache_files, stored>>
        /\ results' = IF IsRelevant(decision)
                      THEN Append(results, n) ELSE results
        /\ match_log' = IF IsRelevant(decision)
                        THEN LogMatch(match_log, c) ELSE match_log
        /\ IF idx + 1 < Len(batch)
           THEN /\ idx' = idx + 1
                /\ UNCHANGED <<i, epc>>
           ELSE /\ idx' = 0
                /\ i' = i + batch_size
                /\ epc' = "batches"
    /\ UNCHANGED <<cache_enabled, user_keywords, evaluated, to_evaluate, li, decisions,
                   runs, sent, sentStored, group, callLog>>
    /\ UNCHANGED evalFrame

\* line 233: "return results"
ReturnResults ==
    /\ epc = "batches"
    /\ i >= Len(to_evaluate)
    /\ epc' = "done"
    /\ UNCHANGED <<cache_files, cache_enabled, user_keywords, evaluated, ai_decision,
                   results, to_evaluate, li, i, decisions, idx, runs, sent,
                   sentStored, group, stored, callLog, match_log>>
    /\ UNCHANGED evalFrame

\* main, lines 333-336: the results are saved, or the exception passes through
\* the finally clause, and the process ends; only CACHE_DIR outlives it
ProcessEnds ==
    /\ epc \in {"done", "raised"}
    /\ epc' = "idle"
    /\ evaluated' = <<>>
    /\ ai_decision' = <<>>
    /\ group' = <<>>
    /\ results' = <<>>
    /\ to_evaluate' = <<>>
    /\ li' = 1
    /\ i' = 0
    /\ idx' = 0
    /\ decisions' = <<>>
    /\ user_keywords' = <<>>
    /\ cache_enabled' = TRUE
    /\ callLog' = <<>>
    /\ match_log' = <<>>
    /\ UNCHANGED <<cache_files, runs, sent, sentStored, stored>>
    /\ UNCHANGED evalFrame

NextEval ==
    \/ StartRun
    \/ ProcessEnds
    \/ LookupHit
    \/ LookupRaisesDecodeError
    \/ LookupRaisesAttributeError
    \/ LookupMiss
    \/ CallGeminiBatchAnswers
    \/ CallGeminiBatchFails
    \/ ProcessDecision
    \/ ReturnResults

(***************************************************************************)
(* evaluate_candidates on lists longer than one batch                      *)
(***************************************************************************)
\* a scan result of n documents of one name and n sizes
LongList(n) == [x \in 1..n |-> Candidate(x, <<"n">>, x, 9)]

\* the lengths that fill up to MaxGroups batches, from one short of a batch
LongLengths == (batch_size - 1)..((MaxGroups - 1) * batch_size + 1)

\* the documents an earlier run may have left a decision for
PreCached == { {}, {3}, {3, batch_size + 2} }

\* values of an answer that are JSON objects and no decision objects: one
\* without confidence and reasons, one with a verdict outside the three, a
\* confidence of 1.5 and no reason
BareVerdict == [decision |-> "RELEVANT"]
OddDecision == [decision |-> "MAYBE", confidence |-> 15, reasons |-> <<>>]

\* the answers the classifier gives for a batch of n items in these runs:
\* all indices RELEVANT, only the even indices, only the last index, or
\* values that are no decision objects for the first two indices
SampledResponses(n) ==
    { [k \in { IntToStr(j) : j \in 0..(n - 1) } |-> DecisionObject("RELEVANT")],
      [k \in { IntToStr(2 * j) : j \in 0..((n - 1) \div 2) } |->
          DecisionObject("NOT_RELEVANT")],
      [k \in { IntToStr(n - 1) } |-> DecisionObject("UNCERTAIN")],
      [k \in { IntToStr(j) : j \in 0..(IF n > 1 THEN 1 ELSE 0) } |->
          IF k = IntToStr(0) THEN BareVerdict ELSE OddDecision] }

\* CACHE_DIR holds the decisions an earlier run stored for some documents
InitBatch ==
    /\ \E pre \in PreCached :
        /\ cache_files = [k \in { CacheKey(kw, LongList(x)[x]) : kw \in Criteria, x \in pre }
                            |-> JsonDump(DecisionObject("RELEVANT"))]
        /\ stored = [t \in { Triple(kw, LongList(x)[x]) : kw \in Criteria, x \in pre }
                       |-> DecisionObject("RELEVANT")]
    /\ cache_enabled = TRUE
    /\ user_keywords = <<>>
    /\ evaluated = <<>>
    /\ ai_decision = <<>>
    /\ results = <<>>
    /\ to_evaluate = <<>>
    /\ epc = "idle"
    /\ li = 1
    /\ i = 0
    /\ decisions = <<>>
    /\ idx = 0
    /\ runs = 0
    /\ sent = [t \in Triples |-> 0]
    /\ sentStored = FALSE
    /\ group = <<>>
    /\ callLog = <<>>
    /\ match_log = <<>>

\* evaluate_candidates is called with a long list
StartLongRun ==
    /\ epc = "idle"
    /\ runs = 0
    /\ runs' = runs + 1
    /\ cache_enabled' \in BOOLEAN
    /\ user_keywords' \in Criteria
    /\ \E n \in LongLengths : evaluated' = LongList(n)
    /\ ai_decision' = [n \in 1..Len(evaluated') |-> NoDecision]
    /\ group' = [n \in 1..Len(evaluated') |-> "none"]
    /\ results' = <<>>
    /\ to_evaluate' = <<>>
    /\ li' = 1
    /\ i' = 0
    /\ idx' = 0
    /\ decisions' = <<>>
    /\ callLog' = <<>>
    /\ match_log' = <<>>
    /\ epc' = "lookup"
    /\ UNCHANGED <<cache_files, sent, sentStored, stored>>
    /\ UNCHANGED evalFrame

\* lines 256-262: the classifier answers a JSON object for a full batch
CallGeminiBatchSampled ==
    /\ epc = "batches"
    /\ i < Len(to_evaluate)
    /\ \E answer \in SampledResponses(Len(Batch(to_evaluate, i))) :
         CallSends(answer,
                   [b \in 1..Len(Batch(to_evaluate, i)) |->
                      IF IntToStr(b - 1) \in DOMAIN answer THEN "covered" ELSE "uncovered"])
    /\ UNCHANGED <<cache_files, cache_enabled, user_keywords, evaluated, ai_decision,
                   results, to_evaluate, li, i, runs, stored, match_log>>
    /\ UNCHANGED evalFrame

NextBatch ==
    \/ StartLongRun
    \/ LookupHit
    \/ LookupMiss
    \/ CallGeminiBatchSampled
    \/ CallGeminiBatchFails
    \/ ProcessDecision
    \/ ReturnResults

(***************************************************************************)
(* find_magazine: scan_channels, _extract_candidate and main               *)
(***************************************************************************)
\* line 106: the endings that make a channel a "junk" channel
JunkSuffixes == { <<".", "a", "p", "k">>, <<".", "e", "x", "e">>, <<".", "d", "m", "g">>, <<".", "i", "p", "a">> }
\* line 146
valid_exts == { <<".", "p", "d", "f">>, <<".", "e", "p", "u", "b">>, <<".", "m", "o", "b", "i">>, <<".", "z", "i", "p">>, <<".", "r", "a", "r">> }
\* line 150
keywords == { <<"m", "a", "g", "a", "z", "i", "n", "e">>,
              <<"i", "s", "s", "u", "e">>,
              <<"v", "o", "l">>,
              <<"e", "d", "i", "t", "i", "o", "n">>,
              <<"2", "0", "2", "4">>,
              <<"2", "0", "2", "5">>,
              <<"w", "e", "e", "k", "l", "y">>,
              <<"m", "o", "n", "t", "h", "l", "y">> }

\* file names and captions of the messages of the model
NatureFile == <<"N", "a", "t", "u", "r", "e", "_", "I", "s", "s", "u", "e", "_", "4", "5", ".", "p", "d", "f">>
NatureCaption == <<"N", "a", "t", "u", "r", "e", " ", "W", "e", "e", "k", "l", "y">>
SetupFile == <<"s", "e", "t", "u", "p", ".", "a", "p", "k">>
LeMondeFile == <<"L", "e", "_", "M", "o", "n", "d", "e", ".", "p", "d", "f">>
WiredFile == <<"W", "i", "r", "e", "d", ".", "e", "p", "u", "b">>
ChatText == <<"h", "e", "l", "l", "o">>
ReaderFile == <<"I", "s", "s", "u", "e", "_", "R", "e", "a", "d", "e", "r", ".", "A", "P", "K">>

\* the messages of the magazine channel: an issue posted at 09:00 and again
\* at 10:00, an installer, a French daily, a text message without document
ChannelMessages ==
    << Message(1, NatureFile, 5, 9, NatureCaption, "en"),
       Message(2, SetupFile, 10, 9, <<>>, "en"),
       Message(3, NatureFile, 5, 10, NatureCaption, "en"),
       Message(4, LeMondeFile, 8, 11, <<>>, "fr"),
       Message(5, <<>>, 0, 12, ChatText, "en") >>

\* iter_messages yields the newest message first: the streams of at most
\* MaxMessages of these messages, by descending id
Streams ==
    { [x \in 1..Cardinality(ids) |->
          ChannelMessages[CHOOSE m \in ids :
                             Cardinality({ j \in ids : j > m }) = x - 1]] :
        ids \in { t \in SUBSET (1..Len(ChannelMessages)) : Cardinality(t) <= MaxMessages } }

\* a busy channel: JunkProbe text messages, and below them, older, an
\* installer whose name holds a magazine keyword
BusyChannelMessages ==
    [x \in 1..JunkProbe |-> Message(50 - x, <<>>, 0, 12, ChatText, "en")]
        \o << Message(8, ReaderFile, 10, 9, <<>>, "en") >>

\* a dialog: dialog.id, dialog.name, dialog.entity.broadcast, whether
\* iter_messages on it works, and its messages
Dialog(id, name, broadcast, readable, messages) ==
    [ id |-> id, name |-> name, broadcast |-> broadcast, readable |-> readable,
      messages |-> messages ]

\* the dialogs of the account: the magazine channel, a channel that forwards
\* the issue a day later next to another magazine, a channel that cannot be
\* read, a group chat, and the busy channel
DialogChoices ==
    { Dialog(1, <<"m">>, TRUE, TRUE, st) : st \in Streams }
    \cup { Dialog(2, <<"f">>, TRUE, TRUE,
                  << Message(7, NatureFile, 5, 33, NatureCaption, "en"),
                     Message(6, WiredFile, 10, 12, <<>>, "raise") >>),
           Dialog(3, <<>>, TRUE, FALSE, <<>>),
           Dialog(4, <<"g">>, FALSE, TRUE, <<>>),
           Dialog(5, <<"b">>, TRUE, TRUE, BusyChannelMessages) }

\* iter_dialogs yields each dialog once
DialogLists ==
    UNION { { s \in [1..n -> DialogChoices] :
                \A a, b \in 1..n : s[a].id = s[b].id => a = b } :
            n \in 0..MaxDialogs }

\* "if msg.media and hasattr(msg.media, 'document')" and a
\* DocumentAttributeFilename with a non-empty name
HasFilename(msg) == msg.file_name # <<>>

\* lines 102-109: one of the first 20 messages carries a file whose name ends
\* in .apk, .exe, .dmg or .ipa
IsJunk(messages) ==
    \E x \in 1..Len(Take(messages, JunkProbe)) :
        /\ HasFilename(messages[x])
        /\ \E e \in JunkSuffixes : EndsWith(Lower(messages[x].file_name), e)

\* _is_likely_english(filename, caption), lang being what detect(text) does:
\* False for a text that is empty once stripped, else detect(text) == 'en',
\* True when detect raises
IsLikelyEnglish(filename, caption, lang) ==
    IF Strip(filename \o <<" ">> \o caption) = <<>> THEN FALSE
    ELSE lang \in {"en", "raise"}

\* "title = dialog.name or 'Unknown Channel'"
Title(dialog) == IF dialog.name = <<>> THEN <<"Unknown Channel">> ELSE dialog.name

\* _extract_candidate returns None
NoCandidate == [none |-> TRUE]

\* _extract_candidate(msg, channel_name, channel_id)
ExtractCandidate(msg, channel_name, channel_id) ==
    IF ~HasFilename(msg) THEN NoCandidate
    ELSE LET ext == Lower(Suffix(msg.file_name))
             is_magazine_hint ==
                 \E k \in keywords : \/ Contains(Lower(msg.file_name), k)
                                     \/ Contains(Lower(msg.message), k)
         IN  IF /\ (ext \in valid_exts \/ is_magazine_hint)
                /\ IsLikelyEnglish(msg.file_name, msg.message, msg.lang)
             THEN CandidateDict(msg, channel_name, channel_id)
             ELSE NoCandidate

\* lines 117-120: the candidates of the first "limit" messages of a channel
ExtractAll(dialog, lim) ==
    LET msgs == Take(dialog.messages, lim)
    IN  SelectSeq([x \in 1..Len(msgs) |->
                      ExtractCandidate(msgs[x], Title(dialog), dialog.id)],
                  LAMBDA c : c # NoCandidate)

scanFrame == <<retryVars, evalVars, toiVars, helperVars, guiVars>>

ScanIdle ==
    /\ dialogs = <<>>
    /\ limit = DefaultLimit
    /\ di = 1
    /\ mpc = "idle"
    /\ client = "new"
    /\ outputs = <<>>
    /\ stop_search_flag = FALSE
    /\ process = "none"

\* the GUI has started find_magazine.py, the credentials are there, the
\* searcher is constructed and searcher.start() has entered
\* retry_with_backoff(self.client.start) with its default arguments;
\* CACHE_DIR is empty or holds the decision an earlier run stored for the
\* issue of the magazine channel
InitScan ==
    /\ dialogs \in DialogLists
    /\ limit \in {1, DefaultLimit}
    /\ di = 1
    /\ mpc = "connecting"
    /\ client = "new"
    /\ outputs = <<>>
    /\ stop_search_flag = FALSE
    /\ process = "running"
    /\ DedupIdle
    /\ max_retries = DefaultMaxRetries
    /\ initial_delay = DefaultInitialDelay
    /\ attempt = 0
    /\ delay = initial_delay
    /\ rpc = "loop"
    /\ retval = None
    /\ raised = NoError
    /\ calls = 0
    /\ slept = <<>>
    /\ failures = 0
    /\ lastError = NoError
    /\ \E pre \in SUBSET { [filename |-> NatureFile, size |-> 5] } :
        /\ cache_files = [k \in { CacheKey(kw, c) : kw \in Criteria, c \in pre }
                            |-> JsonDump(DecisionObject("RELEVANT"))]
        /\ stored = [t \in { Triple(kw, c) : kw \in Criteria, c \in pre }
                       |-> DecisionObject("RELEVANT")]
    /\ cache_enabled = TRUE
    /\ user_keywords = <<>>
    /\ evaluated = <<>>
    /\ ai_decision = <<>>
    /\ results = <<>>
    /\ to_evaluate = <<>>
    /\ epc = "idle"
    /\ li = 1
    /\ i = 0
    /\ decisions = <<>>
    /\ idx = 0
    /\ runs = 0
    /\ sent = [t \in Triples |-> 0]
    /\ sentStored = FALSE
    /\ group = <<>>
    /\ callLog = <<>>
    /\ match_log = <<>>

\* start(), lines 82-84: retry_with_backoff returned, so client.start() was
\* awaited with success; main goes on to scan_channels
MainConnected ==
    /\ mpc = "connecting"
    /\ rpc = "returned"
    /\ client' = IF retval = SuccessValue THEN "started" ELSE client
    /\ mpc' = "scanning"
    /\ dpc' = IF dialogs = <<>> THEN "scanned" ELSE "scanning"
    /\ max_retries' = DefaultMaxRetries
    /\ initial_delay' = DefaultInitialDelay
    /\ attempt' = 0
    /\ delay' = DefaultInitialDelay
    /\ rpc' = "idle"
    /\ retval' = None
    /\ raised' = NoError
    /\ calls' = 0
    /\ slept' = <<>>
    /\ failures' = 0
    /\ lastError' = NoError
    /\ UNCHANGED <<candidates, result, resultAgain, shuffled, resultShuffled>>
    /\ UNCHANGED <<dialogs, limit, di, outputs, stop_search_flag, process>>
    /\ UNCHANGED <<evalVars, toiVars, helperVars, guiVars>>

\* start(): retry_with_backoff raised; the exception leaves main through
\* its finally clause
MainConnectRaises ==
    /\ mpc = "connecting"
    /\ rpc = "raised"
    /\ mpc' = "raising"
    /\ UNCHANGED <<dialogs, limit, di, client, outputs, stop_search_flag, process>>
    /\ UNCHANGED <<retryVars, dedupVars, evalVars, toiVars, helperVars, guiVars>>

\* the dialog loop left after its first dialog
MutDedupAfterFirstChannel ==
    /\ di' = di + 1
    /\ dpc' = "scanned"
\* the dialog loop goes on to the next dialog, or ends
NextDialog ==
    /\ di' = di + 1
    /\ dpc' = IF di + 1 > Len(dialogs) THEN "scanned" ELSE "scanning"

\* lines 95-96: not a broadcast channel: continue
SkipNotBroadcast ==
    /\ dpc = "scanning"
    /\ ~dialogs[di].broadcast
    /\ NextDialog
    /\ UNCHANGED <<candidates, result, resultAgain, shuffled, resultShuffled>>
    /\ UNCHANGED <<dialogs, limit, mpc, client, outputs, stop_search_flag, process>>
    /\ UNCHANGED scanFrame

\* lines 100-113: the channel is taken for a software channel and skipped
SkipJunkChannel ==
    /\ dpc = "scanning"
    /\ dialogs[di].broadcast
    /\ dialogs[di].readable
    /\ IsJunk(dialogs[di].messages)
    /\ NextDialog
    /\ UNCHANGED <<candidates, result, resultAgain, shuffled, resultShuffled>>
    /\ UNCHANGED <<dialogs, limit, mpc, client, outputs, stop_search_flag, process>>
    /\ UNCHANGED scanFrame

\* lines 115-120: the channel is scanned and its candidates are appended
ScanChannel ==
    /\ dpc = "scanning"
    /\ dialogs[di].broadcast
    /\ dialogs[di].readable
    /\ ~IsJunk(dialogs[di].messages)
    /\ candidates' = candidates \o ExtractAll(dialogs[di], limit)
    /\ NextDialog
    /\ UNCHANGED <<result, resultAgain, shuffled, resultShuffled>>
    /\ UNCHANGED <<dialogs, limit, mpc, client, outputs, stop_search_flag, process>>
    /\ UNCHANGED scanFrame

\* line 102: iter_messages raises for the channel; scan_channels has no
\* handler, so the exception leaves it and reaches main's finally clause
ScanChannelRaises ==
    /\ dpc = "scanning"
    /\ dialogs[di].broadcast
    /\ ~dialogs[di].readable
    /\ dpc' = "raised"
    /\ mpc' = "raising"
    /\ UNCHANGED <<candidates, result, resultAgain, shuffled, resultShuffled>>
    /\ UNCHANGED <<dialogs, limit, di, client, outputs, stop_search_flag, process>>
    /\ UNCHANGED scanFrame

\* main, line 333: evaluate_candidates(candidates, args.keywords) is entered
\* with the list scan_channels returned; the cache is on by default
MainEvaluates ==
    /\ mpc = "scanning"
    /\ dpc = "deduped"
    /\ mpc' = "evaluating"
    /\ runs' = runs + 1
    /\ cache_enabled' = TRUE
    /\ user_keywords' \in Criteria
    /\ evaluated' = result
    /\ ai_decision' = [n \in 1..Len(result) |-> NoDecision]
    /\ group' = [n \in 1..Len(result) |-> "none"]
    /\ results' = <<>>
    /\ to_evaluate' = <<>>
    /\ li' = 1
    /\ i' = 0
    /\ idx' = 0
    /\ decisions' = <<>>
    /\ callLog' = <<>>
    /\ match_log' = <<>>
    /\ epc' = IF Len(result) = 0 THEN "batches" ELSE "lookup"
    /\ UNCHANGED <<cache_files, sent, sentStored, stored>>
    /\ UNCHANGED <<dialogs, limit, di, client, outputs, stop_search_flag, process>>
    /\ UNCHANGED <<retryVars, dedupVars, toiVars, helperVars, guiVars>>

\* save_outputs, lines 291-296: a result as written, without its 'message'
SavedResult(n) ==
    [f \in (DOMAIN evaluated[n]) \ {"message"} |-> evaluated[n][f]]
        @@ [f \in {"ai_decision"} |-> ai_decision[n]]

\* main, line 334: save_outputs(results, args.keywords)
SaveOutputs ==
    /\ mpc = "evaluating"
    /\ epc = "done"
    /\ outputs' = Append(outputs,
                         [ keywords |-> user_keywords, total_matches |-> Len(results),
                           results |-> [x \in 1..Len(results) |-> SavedResult(results[x])] ])
    /\ mpc' = "saved"
    /\ UNCHANGED <<dialogs, limit, di, client, stop_search_flag, process>>
    /\ UNCHANGED <<retryVars, dedupVars, evalVars, toiVars, helperVars, guiVars>>

\* main, lines 335-336: the finally clause disconnects, after the results
\* were saved or with the exception still on its way out; the process ends
MainStops ==
    /\ mpc \in {"saved", "raising"}
    /\ mpc' = "exited"
    /\ client' = "disconnected"
    /\ process' = "exited"
    /\ UNCHANGED <<dialogs, limit, di, outputs, stop_search_flag>>
    /\ UNCHANGED <<retryVars, dedupVars, evalVars, toiVars, helperVars, guiVars>>

\* toi_gui.py, stop_search: the flag is set and process.terminate() ends the
\* script where it stands; the script installs no handler for the signal
StopSearch ==
    /\ process = "running"
    /\ stop_search_flag' = TRUE
    /\ process' = "terminated"
    /\ mpc' = "killed"
    /\ dpc' = "killed"
    /\ epc' = "killed"
    /\ rpc' = IF rpc = "idle" THEN rpc ELSE "killed"
    /\ UNCHANGED <<dialogs, limit, di, client, outputs>>
    /\ UNCHANGED <<candidates, result, resultAgain, shuffled, resultShuffled>>
    /\ UNCHANGED <<cache_files, cache_enabled, user_keywords, evaluated, ai_decision,
                   results, to_evaluate, li, i, decisions, idx, runs, sent,
                   sentStored, group, stored, callLog, match_log>>
    /\ UNCHANGED <<max_retries, initial_delay, attempt, delay, retval, raised, calls,
                   slept, failures, lastError>>
    /\ UNCHANGED <<toiVars, helperVars, guiVars>>

NextScan ==
    \/ AttemptReturns
    \/ AttemptPropagates
    \/ AttemptRaisesPersistent
    \/ AttemptRetries
    \/ MainConnected
    \/ MainConnectRaises
    \/ SkipNotBroadcast
    \/ SkipJunkChannel
    \/ ScanChannel
    \/ ScanChannelRaises
    \/ DedupStep
    \/ MainEvaluates
    \/ LookupHit
    \/ LookupMiss
    \/ CallGeminiBatchAnswers
    \/ CallGeminiBatchFails
    \/ ProcessDecision
    \/ ReturnResults
    \/ SaveOutputs
    \/ MainStops
    \/ StopSearch

(***************************************************************************)
(* find_toi: main and find_matching_files                                  *)
(***************************************************************************)
\* the target date of the run, 04-11-2026
TargetDate == [day |-> 4, month |-> 11, year |-> 2026]

\* "[-./\s]" of the date patterns
DateSeparators == { "-", ".", "/", " " }

\* lines 99-104: the four date patterns, each as the texts it matches
DateTexts(d) ==
    { Pad2(d.day) \o <<sep>> \o Pad2(d.month) \o <<sep2>> \o IntToStr(d.year) :
        sep \in DateSeparators, sep2 \in DateSeparators }
    \cup { Pad2(d.day) \o <<sep>> \o Pad2(d.month) : sep \in DateSeparators }
    \cup { IntToStr(d.day) \o <<sep>> \o Pad2(d.month) \o <<sep2>> \o IntToStr(d.year) :
             sep \in DateSeparators, sep2 \in DateSeparators }
    \cup { IntToStr(d.day) \o <<sep>> \o Pad2(d.month) : sep \in DateSeparators }

\* "TOI[H]?" and "(?:hyd|hyderabad)", under re.IGNORECASE
ToiTexts == { <<"t", "o", "i">>, <<"t", "o", "i", "h">> }
LocaleTexts == { <<"h", "y", "d">>, <<"h", "y", "d", "e", "r", "a", "b", "a", "d">> }

\* the fields of a date string, cut at its dashes
DashFields(date_str) ==
    LET dashes == { x \in 1..Len(date_str) : date_str[x] = "-" }
        first == CHOOSE x \in dashes : \A j \in dashes : x <= j
        last == CHOOSE x \in dashes : \A j \in dashes : j <= x
    IN  IF Cardinality(dashes) # 2 THEN <<>>
        ELSE << SubSeq(date_str, 1, first - 1),
                SubSeq(date_str, first + 1, last - 1),
                SubSeq(date_str, last + 1, Len(date_str)) >>

\* the days of a month
DaysIn(month, year) ==
    IF month \in {4, 6, 9, 11} THEN 30
    ELSE IF month # 2 THEN 31
    ELSE IF year % 4 = 0 /\ (year % 100 # 0 \/ year % 400 = 0) THEN 29
    ELSE 28

\* datetime.strptime(date_str, "%d-%m-%Y") does not raise ValueError
ValidDate(date_str) ==
    LET f == DashFields(date_str) IN
    /\ f # <<>>
    /\ \A x \in 1..3 : IsDigits(f[x])
    /\ Len(f[1]) <= 2 /\ Len(f[2]) <= 2 /\ Len(f[3]) = 4
    /\ StrToInt(f[2]) \in 1..12
    /\ StrToInt(f[1]) \in 1..DaysIn(StrToInt(f[2]), StrToInt(f[3]))

\* lines 93-96: dt.day, dt.month, dt.year
ParseDate(date_str) ==
    LET f == DashFields(date_str)
    IN  [day |-> StrToInt(f[1]), month |-> StrToInt(f[2]), year |-> StrToInt(f[3])]

\* compile_matchers(keywords, date_str): the texts each of the three
\* lookaheads accepts, lower case; the argument keywords is not used; the
\* date that does not parse is matched as it is written (line 108)
CompileMatchers(kws, date_str) ==
    [ toi |-> ToiTexts,
      locale |-> LocaleTexts,
      date |-> IF ValidDate(date_str) THEN DateTexts(ParseDate(date_str))
               ELSE { Lower(date_str) } ]

\* regex.search(fname): at some position all three lookaheads "(?=.*X)" hold,
\* that is, each X occurs at or after it (file names hold no line break)
Search(regex, fname) ==
    \E p \in 0..Len(fname) :
        LET rest == Lower(SubSeq(fname, p + 1, Len(fname))) IN
        /\ \E t \in regex.toi : Contains(rest, t)
        /\ \E t \in regex.locale : Contains(rest, t)
        /\ \E t \in regex.date : Contains(rest, t)

\* the regex of a run whose date is d, applied to fname
RegexSearch(fname, d) ==
    Search([toi |-> ToiTexts, locale |-> LocaleTexts, date |-> DateTexts(d)], fname)

\* line 236
channel_filters == { <<"n", "e", "w", "s", "p", "a", "p", "e", "r", "s">>, <<"n", "e", "w", "s", "p", "a", "p", "e", "r">>, <<"e", "p", "a", "p", "e", "r">>,
                     <<"p", "a", "p", "e", "r">>, <<"e", "p", "a", "p", "e", "r", "s">> }

\* file names and channel titles of the model
ToiFile == <<"T", "O", "I", "_", "H", "y", "d", "_", "0", "4", "-", "1", "1", ".", "p", "d", "f">>
ToiDelhiFile == <<"T", "O", "I", "_", "D", "e", "l", "h", "i", "_", "4", ".", "1", "1", ".", "p", "d", "f">>
ToihFile == <<"t", "o", "i", "h", " ", "h", "y", "d", "e", "r", "a", "b", "a", "d", " ", "4", "/", "1", "1", "/", "2", "0", "2", "6">>
EpaperTitle == <<"e", "P", "a", "p", "e", "r", "s">>
DailyTitle == <<"D", "a", "i", "l", "y", " ", "P", "a", "p", "e", "r">>
ChatTitle == <<"c", "h", "a", "t">>

\* a message as find_toi reads it: msg.id, msg.media, whether msg.date is the
\* target date, the file name (empty when it has none), document.size
ToiMessage(id, media, on_date, fname, size) ==
    [ id |-> id, media |-> media, on_date |-> on_date, fname |-> fname,
      size |-> size ]

ToiMessages ==
    << ToiMessage(1, TRUE, TRUE, ToiFile, 5),
       ToiMessage(2, TRUE, TRUE, ToiDelhiFile, 10),
       ToiMessage(3, TRUE, FALSE, ToiFile, 5),
       ToiMessage(4, FALSE, TRUE, <<>>, 0),
       ToiMessage(5, TRUE, TRUE, ToihFile, 8) >>

\* iter_messages(dialog.id, limit=None): newest first
ToiStreams ==
    { [x \in 1..Cardinality(ids) |->
          ToiMessages[CHOOSE m \in ids :
                         Cardinality({ j \in ids : j > m }) = x - 1]] :
        ids \in { t \in SUBSET (1..Len(ToiMessages)) : Cardinality(t) <= MaxMessages } }

\* a dialog: dialog.id, dialog.entity.title, dialog.entity.broadcast, whether
\* iter_messages on it works, its messages
ToiDialog(id, title, broadcast, readable, messages) ==
    [ id |-> id, title |-> title, broadcast |-> broadcast, readable |-> readable,
      messages |-> messages ]

ToiDialogChoices ==
    { ToiDialog(1, EpaperTitle, TRUE, TRUE, st) : st \in ToiStreams }
    \cup { ToiDialog(2, DailyTitle, TRUE, TRUE,
                     << ToiMessage(9, TRUE, TRUE, ToiFile, 10),
                        ToiMessage(8, TRUE, TRUE, ToiFile, 5) >>),
           ToiDialog(3, EpaperTitle, TRUE, FALSE, <<>>),
           ToiDialog(4, ChatTitle, TRUE, TRUE, <<>>),
           ToiDialog(5, EpaperTitle, FALSE, TRUE, <<>>) }

ToiDialogLists ==
    UNION { { s \in [1..n -> ToiDialogChoices] :
                \A a, b \in 1..n : s[a].id = s[b].id => a = b } :
            n \in 0..MaxDialogs }

\* args.retry
RetryArgs == { 0, 2, DefaultMaxRetries }

\* lines 232-237: the title holds one of the channel filters
IsNewspaperChannel(dialog) ==
    \E k \in channel_filters : Contains(Lower(dialog.title), k)

\* lines 245-264: the message is a match
IsMatch(msg, query) ==
    /\ msg.media
    /\ msg.on_date
    /\ msg.fname # <<>>
    /\ (query # <<>> \/ RegexSearch(msg.fname, TargetDate))

\* line 268: the tuple appended to matches
MatchTuple(dialog, msg) ==
    [ dialog |-> dialog.id, msg |-> msg.id, fname |-> msg.fname,
      title |-> dialog.title, size |-> msg.size ]

\* lines 269-272 and 289-292: the [MATCH] line of a tuple of matches; the
\* channels of the model have no username, so the link is the tg:// one
ToiMatchLine(m) ==
    [ filename |-> m.fname, channel |-> m.title, size_mb |-> SizeMB(m.size),
      msg_id |-> m.msg, link |-> DeepLink(m.dialog, m.msg) ]
ToiMatchLines(ms) == [x \in 1..Len(ms) |-> ToiMatchLine(ms[x])]

\* lines 244-268: the matches of one channel, newest first
ChannelMatches(dialog, query) ==
    LET hits == SelectSeq(dialog.messages, LAMBDA m : IsMatch(m, query))
    IN  [x \in 1..Len(hits) |-> MatchTuple(dialog, hits[x])]

\* list.sort(key=size, reverse=True): stable, equal sizes keep their order
RECURSIVE SortBySizeDesc(_)
SortBySizeDesc(seq) ==
    IF Len(seq) <= 1 THEN seq
    ELSE LET rest == SortBySizeDesc(Tail(seq))
             before == SelectSeq(rest, LAMBDA m : m.size > Head(seq).size)
             after == SelectSeq(rest, LAMBDA m : m.size <= Head(seq).size)
         IN  before \o <<Head(seq)>> \o after

toiFrame == <<dedupVars, evalVars, scanVars, helperVars, guiVars>>

ToiIdle ==
    /\ env = "ok"
    /\ ai_query = <<>>
    /\ toi_dialogs = <<>>
    /\ ti = 1
    /\ fpc = "idle"
    /\ matches = <<>>
    /\ connected = FALSE
    /\ disconnects = 0
    /\ return_code = -1
    /\ exit_code = -1
    /\ scan_error = FALSE
    /\ listing = <<>>
    /\ toi_log = <<>>
    /\ ai_outcome = "none"

\* find_toi.py is started: its arguments, its environment, the dialogs of
\* the account
InitToi ==
    /\ env \in {"ok", "bad_date", "no_telethon", "no_credentials", "no_session"}
    /\ ai_query \in { <<>>, <<"q">> }
    /\ toi_dialogs \in ToiDialogLists
    /\ ti = 1
    /\ fpc = "start"
    /\ matches = <<>>
    /\ connected = FALSE
    /\ disconnects = 0
    /\ return_code = -1
    /\ exit_code = -1
    /\ scan_error = FALSE
    /\ listing = <<>>
    /\ toi_log = <<>>
    /\ ai_outcome = "none"

\* main, lines 339-342, and find_matching_files, lines 193-204: a date that
\* does not parse, no telethon, no credentials or no session file: return 1
SetupFails ==
    /\ fpc = "start"
    /\ env # "ok"
    /\ exit_code' = 1
    /\ fpc' = "exited"
    /\ UNCHANGED <<env, ai_query, toi_dialogs, ti, matches, connected, disconnects, return_code,
                   scan_error, listing, toi_log, ai_outcome>>
    /\ UNCHANGED retryVars
    /\ UNCHANGED toiFrame

\* line 219: retry_with_backoff(client.start, max_retries=max_retries) is
\* entered
ConnectStarts ==
    /\ fpc = "start"
    /\ env = "ok"
    /\ fpc' = "connecting"
    /\ max_retries' \in RetryArgs
    /\ initial_delay' = DefaultInitialDelay
    /\ attempt' = 0
    /\ delay' = DefaultInitialDelay
    /\ rpc' = "loop"
    /\ retval' = None
    /\ raised' = NoError
    /\ calls' = 0
    /\ slept' = <<>>
    /\ failures' = 0
    /\ lastError' = NoError
    /\ UNCHANGED <<env, ai_query, toi_dialogs, ti, matches, connected, disconnects, return_code,
                   exit_code, scan_error, listing, toi_log, ai_outcome>>
    /\ UNCHANGED toiFrame

\* retry_with_backoff returned: its locals are gone; the client is connected
\* when client.start was awaited with success
ConnectReturns ==
    /\ fpc = "connecting"
    /\ rpc = "returned"
    /\ connected' = (retval = SuccessValue)
    /\ fpc' = "scanning"
    /\ max_retries' = DefaultMaxRetries
    /\ initial_delay' = DefaultInitialDelay
    /\ attempt' = 0
    /\ delay' = DefaultInitialDelay
    /\ rpc' = "idle"
    /\ retval' = None
    /\ raised' = NoError
    /\ calls' = 0
    /\ slept' = <<>>
    /\ failures' = 0
    /\ lastError' = NoError
    /\ UNCHANGED <<env, ai_query, toi_dialogs, ti, matches, disconnects, return_code,
                   exit_code, scan_error, listing, toi_log, ai_outcome>>
    /\ UNCHANGED toiFrame

\* retry_with_backoff raised: line 219 is outside the try block, the
\* exception reaches main's "except Exception": return 1
ConnectRaises ==
    /\ fpc = "connecting"
    /\ rpc = "raised"
    /\ exit_code' = 1
    /\ fpc' = "exited"
    /\ UNCHANGED <<env, ai_query, toi_dialogs, ti, matches, connected, disconnects, return_code,
                   scan_error, listing, toi_log, ai_outcome>>
    /\ UNCHANGED retryVars
    /\ UNCHANGED toiFrame

\* lines 229-239: no broadcast channel, or no newspaper word in its title
ToiSkipsDialog ==
    /\ fpc = "scanning"
    /\ connected
    /\ ti <= Len(toi_dialogs)
    /\ ~toi_dialogs[ti].broadcast \/ ~IsNewspaperChannel(toi_dialogs[ti])
    /\ ti' = ti + 1
    /\ UNCHANGED <<env, ai_query, toi_dialogs, fpc, matches, connected, disconnects, return_code,
                   exit_code, scan_error, listing, toi_log, ai_outcome>>
    /\ UNCHANGED retryVars
    /\ UNCHANGED toiFrame

\* lines 241-272: the messages of the channel are read, matches are appended
ToiScansChannel ==
    /\ fpc = "scanning"
    /\ connected
    /\ ti <= Len(toi_dialogs)
    /\ toi_dialogs[ti].broadcast
    /\ IsNewspaperChannel(toi_dialogs[ti])
    /\ toi_dialogs[ti].readable
    /\ matches' = matches \o ChannelMatches(toi_dialogs[ti], ai_query)
    /\ toi_log' = IF ai_query = <<>>
                  THEN toi_log \o ToiMatchLines(ChannelMatches(toi_dialogs[ti], ai_query))
                  ELSE toi_log
    /\ ti' = ti + 1
    /\ UNCHANGED <<env, ai_query, toi_dialogs, fpc, connected, disconnects, return_code,
                   exit_code, scan_error, listing, ai_outcome>>
    /\ UNCHANGED retryVars
    /\ UNCHANGED toiFrame

\* iter_dialogs raises because the client is not connected, or iter_messages
\* raises for the channel: lines 306-309 catch and log the exception
ToiScanRaises ==
    /\ fpc = "scanning"
    /\ \/ ~connected
       \/ /\ ti <= Len(toi_dialogs)
          /\ toi_dialogs[ti].broadcast
          /\ IsNewspaperChannel(toi_dialogs[ti])
          /\ ~toi_dialogs[ti].readable
    /\ scan_error' = TRUE
    /\ fpc' = "caught"
    /\ UNCHANGED <<env, ai_query, toi_dialogs, ti, matches, connected, disconnects, return_code,
                   exit_code, listing, toi_log, ai_outcome>>
    /\ UNCHANGED retryVars
    /\ UNCHANGED toiFrame

\* lines 274-276: the scan ended with no match: "return 2"
ToiNoMatches ==
    /\ fpc = "scanning"
    /\ connected
    /\ ti > Len(toi_dialogs)
    /\ matches = <<>>
    /\ return_code' = 2
    /\ fpc' = "finally"
    /\ UNCHANGED <<env, ai_query, toi_dialogs, ti, matches, connected, disconnects, exit_code,
                   scan_error, listing, toi_log, ai_outcome>>
    /\ UNCHANGED retryVars
    /\ UNCHANGED toiFrame

\* lines 280-292: the matches whose file name is in ai_matches_filenames are
\* kept and logged; "return 2" when none is left
FilterMatches(keep) ==
    LET filtered == SelectSeq(matches, LAMBDA m : m.fname \in keep) IN
    IF filtered = <<>>
    THEN /\ return_code' = 2
         /\ fpc' = "finally"
         /\ UNCHANGED <<matches, toi_log>>
    ELSE /\ matches' = filtered
         /\ toi_log' = toi_log \o ToiMatchLines(filtered)
         /\ fpc' = "rank"
         /\ UNCHANGED return_code

\* the file names handed to ai_filter_matches
MatchNames == { matches[x].fname : x \in 1..Len(matches) }

\* lines 160-176: the call is answered; ai_filter_matches returns the lines
\* of the answer that are file names of the list
ToiAiFilter ==
    /\ fpc = "scanning"
    /\ connected
    /\ ti > Len(toi_dialogs)
    /\ matches # <<>>
    /\ ai_query # <<>>
    /\ \E keep \in SUBSET MatchNames : FilterMatches(keep)
    /\ ai_outcome' = "answered"
    /\ UNCHANGED <<env, ai_query, toi_dialogs, ti, connected, disconnects, exit_code, scan_error,
                   listing>>
    /\ UNCHANGED retryVars
    /\ UNCHANGED toiFrame

\* what ai_filter_matches returns when the call raises (lines 177-179) or
\* when GOOGLE_API_KEY or google-genai is missing (lines 156-158)
FailedFilterResult(filenames) == filenames

\* lines 155-158 and 177-179: no call can be made, or the call raises
ToiAiFilterFails ==
    /\ fpc = "scanning"
    /\ connected
    /\ ti > Len(toi_dialogs)
    /\ matches # <<>>
    /\ ai_query # <<>>
    /\ FilterMatches(FailedFilterResult(MatchNames))
    /\ ai_outcome' \in {"failed", "no_key"}
    /\ UNCHANGED <<env, ai_query, toi_dialogs, ti, connected, disconnects, exit_code, scan_error,
                   listing>>
    /\ UNCHANGED retryVars
    /\ UNCHANGED toiFrame

\* lines 294-304: the matches are sorted by size, listed, "return 0"
ToiRanks ==
    /\ \/ fpc = "rank"
       \/ /\ fpc = "scanning"
          /\ connected
          /\ ti > Len(toi_dialogs)
          /\ matches # <<>>
          /\ ai_query = <<>>
    /\ matches' = SortBySizeDesc(matches)
    /\ listing' = SortBySizeDesc(matches)
    /\ return_code' = 0
    /\ fpc' = "finally"
    /\ UNCHANGED <<env, ai_query, toi_dialogs, ti, connected, disconnects, exit_code, scan_error,
                   toi_log, ai_outcome>>
    /\ UNCHANGED retryVars
    /\ UNCHANGED toiFrame

\* lines 310-314 and main, line 360: the finally clause disconnects; the
\* pending return value, or the 2 of line 314 after a caught exception, goes
\* to main, which returns "return_code or 0"
ToiFinally ==
    /\ fpc \in {"finally", "caught"}
    /\ connected' = FALSE
    /\ disconnects' = disconnects + 1
    /\ exit_code' = IF fpc = "caught" THEN 2 ELSE return_code
    /\ fpc' = "exited"
    /\ UNCHANGED <<env, ai_query, toi_dialogs, ti, matches, return_code, scan_error,
                   listing, toi_log, ai_outcome>>
    /\ UNCHANGED retryVars
    /\ UNCHANGED toiFrame

NextToi ==
    \/ SetupFails
    \/ ConnectStarts
    \/ AttemptReturns
    \/ AttemptPropagates
    \/ AttemptRaisesPersistent
    \/ AttemptRetries
    \/ LoopFallsThrough
    \/ ConnectReturns
    \/ ConnectRaises
    \/ ToiSkipsDialog
    \/ ToiScansChannel
    \/ ToiScanRaises
    \/ ToiNoMatches
    \/ ToiAiFilter
    \/ ToiAiFilterFails
    \/ ToiRanks
    \/ ToiFinally

(***************************************************************************)
(* The helper functions, each called once on arguments of its own          *)
(***************************************************************************)
\* no call is made
NoCall == [fn |-> "none"]
\* the call has not returned
NoResult == [pending |-> TRUE]

\* find_toi.py, line 54 and line 348: DEFAULT_KEYWORDS, or what --keywords gave
KeywordLists ==
    { << <<"T", "O", "I">>, <<"T", "O", "I", "H">> >>,
      << <<"H", "i", "n", "d", "u">> >>,
      << <<"T", "O", "I">>, <<"H", "i", "n", "d", "u">> >> }

\* --date, or today's date
DateStrings ==
    { <<"0", "4", "-", "1", "1", "-", "2", "0", "2", "6">>,
      <<"1", "4", "-", "1", "1", "-", "2", "0", "2", "6">>,
      <<"2", "9", "-", "1", "1", "-", "2", "0", "2", "5">> }

HinduFile == <<"H", "i", "n", "d", "u", "_", "H", "y", "d", "_", "0", "4", "-", "1", "1", ".", "p", "d", "f">>
PlainToiFile == <<"T", "o", "i", "H", "y", "d", "2", "9", "1", "1", ".", "p", "d", "f">>
FullDateFile == <<"T", "O", "I", "H", "_", "H", "y", "d", "_", "2", "9", ".", "1", "1", ".", "2", "0", "2", "5", ".", "p", "d", "f">>

MatcherFiles == { ToiFile, ToiDelhiFile, ToihFile, HinduFile, PlainToiFile, FullDateFile }

\* the calls regex = compile_matchers(keywords, date_str); regex.search(fname)
MatcherCalls ==
    { [fn |-> "compile_matchers", keywords |-> k, date_str |-> d, fname |-> f] :
        k \in KeywordLists, d \in DateStrings, f \in MatcherFiles }

\* the calls _is_likely_english(filename, caption); detect is what
\* langdetect does with the text: a language code, or it raises
EnglishCalls ==
    { [fn |-> "_is_likely_english", filename |-> f, caption |-> c, detect |-> l] :
        f \in { NatureFile, LeMondeFile, <<" ">> },
        c \in { <<>>, NatureCaption, <<" ", "\n">> },
        l \in { "en", "fr", "raise" } }

\* criteria strings and file names, some of them holding a colon
ColonCriteria == { <<"k">>, <<"k", ":", "n">> }
ColonFilenames == { <<"n">>, <<"t">>, <<"n", ":", "t">> }
KeyTriples == ColonCriteria \X ColonFilenames \X Sizes

\* the cache keys of two evaluation units
KeyCalls ==
    { [fn |-> "cache_key", a |-> a, b |-> b] : a \in KeyTriples, b \in KeyTriples }

helperFrame == <<retryVars, dedupVars, evalVars, scanVars, toiVars, guiVars>>

HelperIdle ==
    /\ fn_call = NoCall
    /\ fn_result = NoResult

InitHelper ==
    /\ fn_call \in MatcherCalls \cup EnglishCalls \cup KeyCalls
    /\ fn_result = NoResult

\* find_toi.py, lines 208 and 264: bool(regex.search(fname))
CompileMatchersSearch ==
    /\ fn_call.fn = "compile_matchers"
    /\ fn_result = NoResult
    /\ fn_result' = [value |-> Search(CompileMatchers(fn_call.keywords, fn_call.date_str),
                                      fn_call.fname)]
    /\ UNCHANGED fn_call
    /\ UNCHANGED helperFrame

\* find_magazine.py, line 155: self._is_likely_english(filename, caption)
IsLikelyEnglishCall ==
    /\ fn_call.fn = "_is_likely_english"
    /\ fn_result = NoResult
    /\ fn_result' = [value |-> IsLikelyEnglish(fn_call.filename, fn_call.caption,
                                               fn_call.detect)]
    /\ UNCHANGED fn_call
    /\ UNCHANGED helperFrame

\* find_magazine.py, lines 193 and 224: the cache keys of the two units
CacheKeyCall ==
    /\ fn_call.fn = "cache_key"
    /\ fn_result = NoResult
    /\ fn_result' =
         [ key_a |-> CacheKey(fn_call.a[1], [filename |-> fn_call.a[2], size |-> fn_call.a[3]]),
           key_b |-> CacheKey(fn_call.b[1], [filename |-> fn_call.b[2], size |-> fn_call.b[3]]) ]
    /\ UNCHANGED fn_call
    /\ UNCHANGED helperFrame

NextHelper ==
    \/ CompileMatchersSearch
    \/ IsLikelyEnglishCall
    \/ CacheKeyCall

(***************************************************************************)
(* toi_gui.py: Start Search, Stop Search, Clear All and run_search         *)
(***************************************************************************)
\* the searches of a session, in the order they are started
ThreadIds == 1..MaxThreads

guiFrame == <<retryVars, dedupVars, evalVars, toiVars, helperVars,
              dialogs, limit, di, mpc, client, outputs, process>>

GuiIdle ==
    /\ search_button = "normal"
    /\ stop_btn = "disabled"
    /\ self_process = 0
    /\ threads = [t \in ThreadIds |-> "unborn"]
    /\ procs = [t \in ThreadIds |-> "none"]
    /\ after_queue = <<>>
    /\ started = 0
    /\ stop_enabled = {}

\* __init__, lines 50-54 and 113-114: the window as it opens
InitGui == GuiIdle

\* a callback handed to root.after(0, ...) by the thread of search t
Callback(cb, t) == [cb |-> cb, by |-> t]

\* process.terminate(): a subprocess that has ended is left as it is
Terminate(ps, t) ==
    [ps EXCEPT ![t] = IF ps[t] = "running" THEN "terminated" ELSE ps[t]]

\* start_search, lines 242-248 (main thread): the button is pressed
StartSearch ==
    /\ search_button = "normal"
    /\ started < MaxThreads
    /\ search_button' = "disabled"
    /\ stop_search_flag' = FALSE
    /\ started' = started + 1
    /\ threads' = [threads EXCEPT ![started + 1] = "begin"]
    /\ UNCHANGED <<stop_btn, self_process, procs, after_queue, stop_enabled>>
    /\ UNCHANGED guiFrame

\* run_search, lines 252-262: magazine mode with an empty entry: the Start
\* button callback is queued and the function returns through its finally
RunSearchNoKeywords(t) ==
    /\ threads[t] = "begin"
    /\ after_queue' = Append(after_queue, Callback("search_normal", t))
    /\ threads' = [threads EXCEPT ![t] = "finally"]
    /\ UNCHANGED <<search_button, stop_btn, self_process, procs, started, stop_enabled,
                   stop_search_flag>>
    /\ UNCHANGED guiFrame

\* run_search, lines 270-278: Popen starts the script
RunSearchPopen(t) ==
    /\ threads[t] = "begin"
    /\ procs' = [procs EXCEPT ![t] = "running"]
    /\ threads' = [threads EXCEPT ![t] = "spawned"]
    /\ UNCHANGED <<search_button, stop_btn, self_process, after_queue, started,
                   stop_enabled, stop_search_flag>>
    /\ UNCHANGED guiFrame

\* run_search, lines 270 and 299-300: Popen raises, the except clause is
\* passed on the way to the finally clause
RunSearchPopenRaises(t) ==
    /\ threads[t] = "begin"
    /\ threads' = [threads EXCEPT ![t] = "finally"]
    /\ UNCHANGED <<search_button, stop_btn, self_process, procs, after_queue, started,
                   stop_enabled, stop_search_flag>>
    /\ UNCHANGED guiFrame

\* run_search, line 280: self.process = process
RunSearchBinds(t) ==
    /\ threads[t] = "spawned"
    /\ self_process' = t
    /\ threads' = [threads EXCEPT ![t] = "bound"]
    /\ UNCHANGED <<search_button, stop_btn, procs, after_queue, started, stop_enabled,
                   stop_search_flag>>
    /\ UNCHANGED guiFrame

\* run_search, line 281: the Stop button callback is queued
RunSearchQueuesStop(t) ==
    /\ threads[t] = "bound"
    /\ after_queue' = Append(after_queue, Callback("stop_normal", t))
    /\ threads' = [threads EXCEPT ![t] = "reading"]
    /\ UNCHANGED <<search_button, stop_btn, self_process, procs, started, stop_enabled,
                   stop_search_flag>>
    /\ UNCHANGED guiFrame

\* run_search, lines 283-290: a line is read with the flag set: the
\* subprocess is terminated and the loop is left (a line read with the flag
\* clear only queues its text)
RunSearchSeesFlag(t) ==
    /\ threads[t] = "reading"
    /\ stop_search_flag
    /\ procs' = Terminate(procs, t)
    /\ threads' = [threads EXCEPT ![t] = "finally"]
    /\ UNCHANGED <<search_button, stop_btn, self_process, after_queue, started,
                   stop_enabled, stop_search_flag>>
    /\ UNCHANGED guiFrame

\* run_search, lines 283 and 293-297: the output of the subprocess has
\* ended; process.wait() returns since the subprocess has ended
RunSearchReadsEnd(t) ==
    /\ threads[t] = "reading"
    /\ procs[t] # "running"
    /\ threads' = [threads EXCEPT ![t] = "finally"]
    /\ UNCHANGED <<search_button, stop_btn, self_process, procs, after_queue, started,
                   stop_enabled, stop_search_flag>>
    /\ UNCHANGED guiFrame

\* run_search, line 302: the Start button callback is queued
FinallyQueuesSearch(t) ==
    /\ threads[t] = "finally"
    /\ after_queue' = Append(after_queue, Callback("search_normal", t))
    /\ threads' = [threads EXCEPT ![t] = "finally_stop"]
    /\ UNCHANGED <<search_button, stop_btn, self_process, procs, started, stop_enabled,
                   stop_search_flag>>
    /\ UNCHANGED guiFrame

\* run_search, line 303: the callback that disables the Stop button is queued
FinallyQueuesStop(t) ==
    /\ threads[t] = "finally_stop"
    /\ after_queue' = Append(after_queue, Callback("stop_disabled", t))
    /\ threads' = [threads EXCEPT ![t] = "finally_process"]
    /\ UNCHANGED <<search_button, stop_btn, self_process, procs, started, stop_enabled,
                   stop_search_flag>>
    /\ UNCHANGED guiFrame

\* run_search, line 304: self.process = None; the thread ends
FinallyUnbinds(t) ==
    /\ threads[t] = "finally_process"
    /\ self_process' = 0
    /\ threads' = [threads EXCEPT ![t] = "dead"]
    /\ UNCHANGED <<search_button, stop_btn, procs, after_queue, started, stop_enabled,
                   stop_search_flag>>
    /\ UNCHANGED guiFrame

\* the script of search t ends by itself
SubprocessExits(t) ==
    /\ procs[t] = "running"
    /\ procs' = [procs EXCEPT ![t] = "exited"]
    /\ UNCHANGED <<search_button, stop_btn, self_process, threads, after_queue, started,
                   stop_enabled, stop_search_flag>>
    /\ UNCHANGED guiFrame

\* the main loop runs the oldest queued callback
RunCallback ==
    /\ after_queue # <<>>
    /\ LET c == Head(after_queue) IN
        /\ search_button' = IF c.cb = "search_normal" THEN "normal" ELSE search_button
        /\ stop_btn' = CASE c.cb = "stop_normal" -> "normal"
                         [] c.cb = "stop_disabled" -> "disabled"
                         [] OTHER -> stop_btn
        /\ stop_enabled' = IF c.cb = "stop_normal"
                           THEN stop_enabled \cup {c.by} ELSE stop_enabled
    /\ after_queue' = Tail(after_queue)
    /\ UNCHANGED <<self_process, threads, procs, started, stop_search_flag>>
    /\ UNCHANGED guiFrame

\* stop_search, lines 306-313 (main thread): the Stop button is pressed
PressStop ==
    /\ stop_btn = "normal"
    /\ stop_search_flag' = TRUE
    /\ procs' = IF self_process # 0 THEN Terminate(procs, self_process) ELSE procs
    /\ UNCHANGED <<search_button, stop_btn, self_process, threads, after_queue, started,
                   stop_enabled>>
    /\ UNCHANGED guiFrame

\* clear_output, lines 229-240 (main thread): Clear All is pressed
ClearOutput ==
    /\ stop_btn' = "disabled"
    /\ self_process' = 0
    /\ UNCHANGED <<search_button, threads, procs, after_queue, started, stop_enabled,
                   stop_search_flag>>
    /\ UNCHANGED guiFrame

NextGui ==
    \/ StartSearch
    \/ \E t \in ThreadIds : RunSearchNoKeywords(t)
    \/ \E t \in ThreadIds : RunSearchPopen(t)
    \/ \E t \in ThreadIds : RunSearchPopenRaises(t)
    \/ \E t \in ThreadIds : RunSearchBinds(t)
    \/ \E t \in ThreadIds : RunSearchQueuesStop(t)
    \/ \E t \in ThreadIds : RunSearchSeesFlag(t)
    \/ \E t \in ThreadIds : RunSearchReadsEnd(t)
    \/ \E t \in ThreadIds : FinallyQueuesSearch(t)
    \/ \E t \in ThreadIds : FinallyQueuesStop(t)
    \/ \E t \in ThreadIds : FinallyUnbinds(t)
    \/ \E t \in ThreadIds : SubprocessExits(t)
    \/ RunCallback
    \/ PressStop
    \/ ClearOutput

(***************************************************************************)
(* Specifications                                                          *)
(***************************************************************************)
\* one call of retry_with_backoff
RetryCall == InitRetry /\ DedupIdle /\ EvalIdle /\ ScanIdle /\ ToiIdle /\ HelperIdle /\ GuiIdle
SpecRetry == RetryCall /\ [][NextRetry]_vars

\* the end of one scan_channels call
ScanCall == InitDedup /\ RetryIdle /\ EvalIdle /\ ScanIdle /\ ToiIdle /\ HelperIdle /\ GuiIdle
SpecDedup == ScanCall /\ [][NextDedup]_vars

\* runs of evaluate_candidates over one cache directory
EvalRuns == InitEval /\ RetryIdle /\ DedupIdle /\ ScanIdle /\ ToiIdle /\ HelperIdle /\ GuiIdle
SpecEval == EvalRuns /\ [][NextEval]_vars

\* one run of evaluate_candidates over a list of several batches
BatchRun == InitBatch /\ RetryIdle /\ DedupIdle /\ ScanIdle /\ ToiIdle /\ HelperIdle /\ GuiIdle
SpecBatch == BatchRun /\ [][NextBatch]_vars

\* one run of find_magazine.py under the GUI, from searcher.start() on
MagazineRun == InitScan /\ ToiIdle /\ HelperIdle /\ GuiIdle
SpecScan == MagazineRun /\ [][NextScan]_vars

\* one run of find_toi.py
ToiRun == InitToi /\ RetryIdle /\ DedupIdle /\ EvalIdle /\ ScanIdle /\ HelperIdle /\ GuiIdle
SpecToi == ToiRun /\ [][NextToi]_vars

\* one call of a helper function
HelperCall == InitHelper /\ RetryIdle /\ DedupIdle /\ EvalIdle /\ ScanIdle /\ ToiIdle /\ GuiIdle
SpecHelper == HelperCall /\ [][NextHelper]_vars

\* one session of the window of toi_gui.py
GuiSession ==
    InitGui /\ RetryIdle /\ DedupIdle /\ EvalIdle /\ ScanIdle /\ ToiIdle /\ HelperIdle
SpecGui == GuiSession /\ [][NextGui]_vars

(***************************************************************************)
(* Claims about the deduplication step                                     *)
(***************************************************************************)
KeysOf(seq) == { <<seq[x].filename, seq[x].size>> : x \in 1..Len(seq) }

\* C6: the deduplicated output holds exactly one candidate for each
\* (filename, size) key of the input and none for other keys, each of them a
\* candidate of the input, it is no longer than the input, and the candidate
\* kept for a key is at least as recent as every candidate of that key.
C6_DedupCorrect ==
    dpc \in {"deduped", "again", "shuffled"} =>
        /\ KeysOf(result) = KeysOf(candidates)
        /\ Len(result) = Cardinality(KeysOf(candidates))
        /\ Range(result) \subseteq Range(candidates)
        /\ Len(result) <= Len(candidates)
        /\ \A r \in Range(result) : \A c \in Range(candidates) :
             (c.filename = r.filename /\ c.size = r.size)
                => r.message.date >= c.message.date

\* C6 witness: three observations of one document, the most recent of them
\* neither first nor last, were collapsed into one
C6_Witness ==
    /\ dpc = "deduped"
    /\ Len(candidates) = 3
    /\ Len(result) = 1
    /\ candidates[2].message.date > candidates[1].message.date
    /\ candidates[2].message.date > candidates[3].message.date
    /\ result[1] = candidates[2]

\* C7: a permutation of the input yields the same output set, also when
\* observations of one key carry equal timestamps.
C7_OrderIndependent ==
    dpc = "shuffled" => Range(resultShuffled) = Range(result)

\* C8: deduplicating the output again yields the same set.
C8_Idempotent ==
    dpc = "again" => Range(resultAgain) = Range(result)

\* C8 witness: an input with a duplicate was deduplicated twice
C8_Witness ==
    /\ dpc = "again"
    /\ Len(result) < Len(candidates)
    /\ Len(result) >= 2
    /\ resultAgain = result

(***************************************************************************)
(* Claims about evaluate_candidates and the cache                          *)
(***************************************************************************)
Positions == 1..Len(evaluated)

\* the cache file of a (criteria, filename, size) triple
FileOf(t) == Sha256(t[1] \o <<":">> \o t[2] \o <<":">> \o IntToStr(t[3]))

\* C1: with the cache enabled, each (criteria, filename, size) triple is sent
\* to the classifier at most once over all runs, and no candidate is sent
\* while a cache file for its fingerprint exists.
C1_AtMostOnce ==
    /\ \A t \in Triples : sent[t] <= 1
    /\ ~sentStored

\* C1 witness: a second run with the cache on served its first candidate from
\* the cache and sent only the second; each was sent once in all
C1_Witness ==
    /\ runs = 2
    /\ epc = "done"
    /\ cache_enabled
    /\ Len(evaluated) = 2
    /\ group[1] = "hit"
    /\ group[2] \in {"covered", "uncovered", "failed"}
    /\ sent[Triple(user_keywords, evaluated[1])] = 1
    /\ sent[Triple(user_keywords, evaluated[2])] = 1

\* C2: a candidate of a group whose classifier call failed gets no decision
\* in this run: none is attached to it and none is written to the cache.
C2_FailedGroupNoDecision ==
    \A n \in Positions :
        group[n] = "failed" =>
            /\ ai_decision[n] = NoDecision
            /\ cache_enabled =>
                 CacheKey(user_keywords, evaluated[n]) \notin DOMAIN cache_files

\* C3: once a decision was stored for a triple, its cache file reads back as
\* exactly that decision, and a candidate served from the cache carries
\* exactly the decision stored for its triple.
C3_CacheDeterminism ==
    /\ \A t \in DOMAIN stored :
         /\ FileOf(t) \in DOMAIN cache_files
         /\ JsonIsObject(cache_files[FileOf(t)])
         /\ JsonLoad(cache_files[FileOf(t)]) = stored[t]
    /\ \A n \in Positions :
         group[n] = "hit" =>
            /\ Triple(user_keywords, evaluated[n]) \in DOMAIN stored
            /\ ai_decision[n] = stored[Triple(user_keywords, evaluated[n])]

\* C3 witness: a later run read a full RELEVANT decision back from the cache
\* and put the candidate into its results
C3_Witness ==
    /\ runs = 2
    /\ epc = "done"
    /\ Len(evaluated) >= 1
    /\ group[1] = "hit"
    /\ ai_decision[1] = DecisionObject("RELEVANT")
    /\ results = <<1>>

\* C4: a damaged cache entry counts as a miss: evaluate_candidates does not
\* raise, and a candidate whose cache file is damaged goes to to_evaluate.
C4_DamagedEntryIsMiss ==
    /\ epc # "raised"
    /\ \A n \in Positions :
         ( /\ n < li
           /\ cache_enabled
           /\ CacheKey(user_keywords, evaluated[n]) \in DOMAIN cache_files
           /\ cache_files[CacheKey(user_keywords, evaluated[n])] \in DamagedTexts )
         => n \in Range(to_evaluate)

\* C5: a candidate whose index the classifier's answer does not cover ends
\* as NOT_RELEVANT with no reasons and is no result; every candidate of a
\* finished group has a decision; nothing is raised once a group was sent.
C5_BatchTolerance ==
    /\ \A n \in Positions :
         (group[n] = "uncovered" /\ ai_decision[n] # NoDecision) =>
            /\ DictGet(ai_decision[n], "decision") = "NOT_RELEVANT"
            /\ ReasonsOf(ai_decision[n]) = <<>>
            /\ n \notin Range(results)
    /\ epc \in {"batches", "done"} =>
         \A n \in Positions :
            group[n] \in {"covered", "uncovered", "failed"} => ai_decision[n] # NoDecision
    /\ epc = "done" => \A n \in Range(to_evaluate) : ai_decision[n] # NoDecision
    /\ epc = "raised" => \A n \in Positions : group[n] \in {"none", "hit"}

\* C5 witness: of a batch of two the answer covered only index 0
C5_Witness ==
    /\ epc = "done"
    /\ Len(evaluated) = 2
    /\ group = <<"covered", "uncovered">>
    /\ DOMAIN decisions = { IntToStr(0) }
    /\ ai_decision[1] = DecisionObject("RELEVANT")
    /\ ai_decision[2] = [decision |-> "NOT_RELEVANT"]
    /\ results = <<1>>

\* the batches submitted so far, one after the other
RECURSIVE Submitted(_)
Submitted(g) == IF g = 0 THEN <<>> ELSE Submitted(g - 1) \o callLog[g].members

\* the decision the answer of group g holds for its local index b (0-based)
Answered(g, b) ==
    IF IntToStr(b) \in DOMAIN callLog[g].answer
    THEN callLog[g].answer[IntToStr(b)]
    ELSE [decision |-> "NOT_RELEVANT"]

\* C19: a failed classifier call aborts nothing: evaluate_candidates never
\* raises because of it, every group of the misses is submitted whichever
\* groups failed, and the candidates of every group that did not fail carry
\* the decisions of their group's answer when evaluate_candidates returns.
C19_FailedGroupDoesNotAbort ==
    /\ epc # "raised"
    /\ epc = "done" =>
         /\ Len(callLog) = (Len(to_evaluate) + 9) \div 10
         /\ Range(Submitted(Len(callLog))) = Range(to_evaluate)
         /\ \A g \in 1..Len(callLog) :
              ~callLog[g].failed =>
                 \A b \in 1..Len(callLog[g].members) :
                    /\ ai_decision[callLog[g].members[b]] # NoDecision
                    /\ ai_decision[callLog[g].members[b]] = Answered(g, b - 1)

\* C19 witness: of three groups the first and the third failed; the second
\* was answered and its candidates are the results
C19_Witness ==
    /\ epc = "done"
    /\ Len(callLog) = 3
    /\ callLog[1].failed
    /\ ~callLog[2].failed
    /\ callLog[3].failed
    /\ Len(results) = 10
    /\ Range(results) = Range(callLog[2].members)

\* C20: the cache misses are cut into consecutive groups of at most 10: the
\* groups submitted are the slices [0:10], [10:20], ... of the list of misses,
\* which holds every miss once and no hit; the item sent for the b-th
\* candidate of a group has id b-1 and that candidate's filename, and the
\* decision a candidate gets is the one under str(b-1) in the answer.
C20_BatchPartition ==
    /\ \A g \in 1..Len(callLog) :
         LET m == callLog[g].members
             it == callLog[g].items
         IN  /\ Len(m) >= 1
             /\ Len(m) <= 10
             /\ m = SubSeq(to_evaluate, 10 * (g - 1) + 1,
                           IF 10 * g < Len(to_evaluate) THEN 10 * g ELSE Len(to_evaluate))
             /\ Len(it) = Len(m)
             /\ \A b \in 1..Len(m) :
                  /\ it[b].id = b - 1
                  /\ it[b].filename = evaluated[m[b]].filename
                  /\ group[m[b]] # "hit"
    /\ \A a, b \in 1..Len(to_evaluate) : to_evaluate[a] = to_evaluate[b] => a = b
    /\ epc \in {"batches", "batch", "done"} =>
         Range(to_evaluate) = { n \in Positions : group[n] # "hit" }
    /\ epc = "done" =>
         /\ Submitted(Len(callLog)) = to_evaluate
         /\ \A g \in 1..Len(callLog) : \A b \in 1..Len(callLog[g].members) :
              ai_decision[callLog[g].members[b]] = Answered(g, b - 1)

\* C20 witness: 21 candidates, two of them cache hits, went out as a group of
\* ten and a group of nine, and the hit in the middle of the first ten moved
\* the group boundary
C20_Witness ==
    /\ epc = "done"
    /\ Len(evaluated) = 21
    /\ Len(callLog) = 2
    /\ Len(callLog[1].members) = 10
    /\ Len(callLog[2].members) = 9
    /\ group[3] = "hit"
    /\ callLog[1].members[10] = 11
    /\ callLog[2].items[1].id = 0

\* the verdict a candidate carries, "none" while it carries no decision
VerdictOf(n) ==
    IF ai_decision[n] # NoDecision /\ "decision" \in DOMAIN ai_decision[n]
    THEN ai_decision[n].decision ELSE "none"

\* C12: when evaluate_candidates returns, its results are exactly the input
\* candidates whose decision, read from the cache or given by the classifier,
\* is RELEVANT, each exactly once; none of them is NOT_RELEVANT or UNCERTAIN;
\* each carries its decision and the deep link to its message.
C12_ResultsAreTheRelevant ==
    epc = "done" =>
        /\ Range(results) = { n \in Positions : VerdictOf(n) = "RELEVANT" }
        /\ \A a, b \in 1..Len(results) : results[a] = results[b] => a = b
        /\ \A n \in Range(results) :
             /\ VerdictOf(n) \notin {"NOT_RELEVANT", "UNCERTAIN", "none"}
             /\ group[n] = "hit" =>
                  ai_decision[n] = stored[Triple(user_keywords, evaluated[n])]
             /\ group[n] # "hit" =>
                  (group[n] = "covered" /\ ai_decision[n] \in ClassifierDecisions)
             /\ evaluated[n].link =
                  <<"tg://openmessage?chat_id=">> \o IntToStr(evaluated[n].channel_id)
                     \o <<"&message_id=">> \o IntToStr(evaluated[n].msg_id)

\* C12 witness: of two candidates one was RELEVANT from the cache and the
\* other UNCERTAIN from the classifier; only the first is a result
C12_Witness ==
    /\ epc = "done"
    /\ Len(evaluated) = 2
    /\ group = <<"hit", "covered">>
    /\ VerdictOf(1) = "RELEVANT"
    /\ VerdictOf(2) = "UNCERTAIN"
    /\ results = <<1>>

\* C21: in every state of a run the [MATCH] lines logged so far are, one for
\* one and in order, the candidates accepted into the results so far, all of
\* them RELEVANT (from the cache or from the classifier); each line carries
\* the candidate's filename, channel, message id and deep link and its size in
\* megabytes to two decimals; no candidate has two lines.
C21_AuditTrail ==
    /\ Len(match_log) = Len(results)
    /\ \A x \in 1..Len(results) :
         LET c == evaluated[results[x]]
             line == match_log[x]
         IN  /\ VerdictOf(results[x]) = "RELEVANT"
             /\ line.filename = c.filename
             /\ line.channel = c.channel_name
             /\ line.msg_id = c.msg_id
             /\ line.link = c.link
             /\ 2 * (line.size_mb * 1048576 - c.size * 100) <= 1048576
             /\ 2 * (c.size * 100 - line.size_mb * 1048576) <= 1048576
    /\ \A x, y \in 1..Len(match_log) :
         (match_log[x].msg_id = match_log[y].msg_id /\ match_log[x].link = match_log[y].link)
            => x = y

\* C21 witness: a run accepted one candidate from the cache and one from the
\* classifier, and logged one line for each, in that order
C21_Witness ==
    /\ runs = 2
    /\ epc = "done"
    /\ group = <<"hit", "covered">>
    /\ results = <<1, 2>>
    /\ Len(match_log) = 2
    /\ match_log[1].msg_id = evaluated[1].msg_id
    /\ match_log[2].msg_id = evaluated[2].msg_id

\* d is a well-formed EvaluationDecision: a verdict of the three, a
\* confidence in [0, 1] (in tenths), at least one reason
WellFormed(d) ==
    /\ DOMAIN d = {"decision", "confidence", "reasons"}
    /\ d.decision \in Verdicts
    /\ d.confidence \in 0..10
    /\ Len(d.reasons) >= 1

\* C23: every decision attached to a candidate and every decision written to
\* the cache is a well-formed EvaluationDecision.
C23_DecisionsWellFormed ==
    /\ \A n \in Positions : ai_decision[n] # NoDecision => WellFormed(ai_decision[n])
    /\ \A t \in DOMAIN stored : WellFormed(stored[t])

\* C14: the result sequence evaluate_candidates returns, which main hands to
\* save_outputs as it is, is ordered by non-increasing file size.
C14_RankedBySize ==
    epc = "done" =>
        \A a, b \in 1..Len(results) :
            a < b => evaluated[results[a]].size >= evaluated[results[b]].size

\* every file of CACHE_DIR is still there after the step, with its content
CacheFilesKept ==
    \A k \in DOMAIN cache_files :
        k \in DOMAIN cache_files' /\ cache_files'[k] = cache_files[k]

\* every decision handed to json.dump has a file of its own
OneFilePerTriple ==
    /\ \A t \in DOMAIN stored : FileOf(t) \in DOMAIN cache_files
    /\ Cardinality({ FileOf(t) : t \in DOMAIN stored }) = Cardinality(DOMAIN stored)
    /\ Cardinality(DOMAIN cache_files) >= Cardinality(DOMAIN stored)

ScenarioDialogs ==
    << Dialog(1, <<"m">>, TRUE, TRUE,
              << Message(3, NatureFile, 5, 10, NatureCaption, "en"),
                 Message(2, SetupFile, 10, 9, <<>>, "en"),
                 Message(1, NatureFile, 5, 9, NatureCaption, "en") >>) >>

\* C13: on the scenario channel the scan extracts one candidate from the
\* first message and one from the third and none from the installer, the
\* deduplication keeps the third message, and once the classifier has
\* answered RELEVANT with confidence 0.9 the run has exactly one result.
C13_EndToEnd ==
    (dialogs = ScenarioDialogs /\ limit = DefaultLimit) =>
        /\ dpc \in {"scanned", "deduped"} =>
             /\ Len(candidates) = 2
             /\ { candidates[x].msg_id : x \in 1..Len(candidates) } = {1, 3}
        /\ dpc = "deduped" =>
             /\ Len(result) = 1
             /\ result[1].msg_id = 3
        /\ ( /\ epc = "done"
             /\ Len(callLog) = 1
             /\ callLog[1].answer = [k \in {IntToStr(0)} |-> DecisionObject("RELEVANT")] )
           => ( Len(results) = 1 /\ evaluated[results[1]].msg_id = 3 )

\* the stage a run of find_magazine.py is in: 1 connecting, 2 enumerating the
\* channels and extracting from each, 3 deduplicated, 4 cache lookup,
\* 5 batch evaluation, 6 results returned, 7 results written, 8 ended
\* (disconnected, failed or terminated)
Stage ==
    CASE mpc = "connecting" -> 1
      [] mpc = "scanning" /\ dpc \in {"scanning", "scanned"} -> 2
      [] mpc = "scanning" /\ dpc = "deduped" -> 3
      [] mpc = "evaluating" /\ epc = "lookup" -> 4
      [] mpc = "evaluating" /\ epc \in {"batches", "batch"} -> 5
      [] mpc = "evaluating" /\ epc = "done" -> 6
      [] mpc = "saved" -> 7
      [] OTHER -> 8

\* the number of classifier calls that evaluate all of to_evaluate
BatchCount == (Len(to_evaluate) + batch_size - 1) \div batch_size

\* what each stage of a run has behind it
StageGuards ==
    /\ Stage \in 2..7 => client = "started"
    /\ (di > 1 \/ candidates # <<>>) => client # "new"
    /\ (dpc = "deduped" \/ result # <<>>) => di > Len(dialogs)
    /\ Stage \in 3..7 => result = Dedup(candidates)
    /\ callLog # <<>> =>
         /\ li > Len(evaluated)
         /\ evaluated = result
         /\ \A n \in 1..Len(evaluated) :
              group[n] = "hit" \/ \E x \in 1..Len(to_evaluate) : to_evaluate[x] = n
    /\ outputs # <<>> =>
         /\ Len(outputs) = 1
         /\ li > Len(evaluated)
         /\ i >= Len(to_evaluate)
         /\ Len(callLog) = BatchCount
         /\ \A n \in 1..Len(evaluated) : ai_decision[n] # NoDecision

\* a step stays in its stage, enters the next one, or ends the run; a run
\* with nothing to look up enters the batch loop directly
StageStep ==
    \/ Stage' = Stage
    \/ Stage' = Stage + 1
    \/ Stage' = 8
    \/ Stage = 3 /\ Stage' = 5 /\ evaluated' = <<>>

\* C26: in a run of find_magazine.py the client is started before any
\* channel is enumerated, the deduplication runs only when the dialog loop
\* has passed every channel, every deduplicated candidate has had its cache
\* lookup before the first classifier call, the results are written only
\* when every group has been evaluated, and the run goes through these
\* stages in this order without returning to an earlier one.
C26_PipelineOrder == [](StageGuards) /\ [][StageStep]_vars

\* a run over two channels that found one decision in the cache, asked the
\* classifier for another candidate and has written its results
C26_Witness ==
    /\ mpc = "saved"
    /\ client = "started"
    /\ Len(dialogs) = 2
    /\ di = 3
    /\ Len(result) >= 2
    /\ \E n \in 1..Len(evaluated) : group[n] = "hit"
    /\ to_evaluate # <<>>
    /\ Len(callLog) = 1
    /\ Len(outputs) = 1

\* the file name ends in one of the denylisted extensions, in any case
Denylisted(filename) == \E e \in JunkSuffixes : EndsWith(Lower(filename), e)

\* C22: no message whose file name carries an extension of the denylist
\* (.apk, .exe, .dmg, .ipa) becomes a candidate, wherever it stands in its
\* channel: none is among the candidates collected, the deduplicated list or
\* the list handed to the classifier.
C22_DenylistedNeverCandidate ==
    /\ \A x \in 1..Len(candidates) : ~Denylisted(candidates[x].filename)
    /\ \A x \in 1..Len(result) : ~Denylisted(result[x].filename)
    /\ \A x \in 1..Len(evaluated) : ~Denylisted(evaluated[x].filename)

\* C16: when the scan of one channel failed, the candidates collected from
\* the other channels are evaluated and the run reports: at its end every
\* collected document carries a decision and the result files are written.
C16_PartialSuccess ==
    (mpc = "exited" /\ candidates # <<>>) =>
        /\ Len(outputs) = 1
        /\ \A c \in Range(candidates) :
             \E n \in Positions :
                /\ evaluated[n].filename = c.filename
                /\ evaluated[n].size = c.size
                /\ ai_decision[n] # NoDecision

\* C17: a stop signal raised once candidates were collected does not end the
\* process abruptly: the process keeps running to a point where it returns,
\* and when it has ended the results it collected are written.
C17_CooperativeStop ==
    (stop_search_flag /\ candidates # <<>>) =>
        /\ process # "terminated"
        /\ process = "exited" => Len(outputs) = 1

(***************************************************************************)
(* Claims about a whole run of find_toi                                    *)
(***************************************************************************)
\* the scan ran to its end: the setup was complete, the connection was made
\* and nothing was raised while scanning
ScanCompleted == env = "ok" /\ raised = NoError /\ ~scan_error

\* C15: find_toi ends with 0 exactly when the scan completed and listed at
\* least one result, with the 'no matches' code 2 only when the scan
\* completed without error and listed none, and with a code that is neither
\* of the two after a fatal error: incomplete setup, a failed connection, or
\* an error raised while scanning.
C15_ExitCodes ==
    fpc = "exited" =>
        /\ exit_code = 0 <=> (ScanCompleted /\ listing # <<>>)
        /\ exit_code = 2 => (ScanCompleted /\ listing = <<>>)
        /\ ~ScanCompleted => exit_code \notin {0, 2}

\* C27: the results find_toi lists hold at most one entry for each
\* (filename, size) key.
C27_OneResultPerKey ==
    \A a, b \in 1..Len(listing) :
        (listing[a].fname = listing[b].fname /\ listing[a].size = listing[b].size)
            => a = b

\* C28: when the classifier call of the AI-query mode failed, the scan is
\* not aborted by it and no candidate is reported as a match: no [MATCH]
\* line is logged and no result is listed.
C28_AiFailureIsolated ==
    ai_outcome \in {"failed", "no_key"} =>
        /\ ~scan_error
        /\ fpc # "caught"
        /\ toi_log = <<>>
        /\ listing = <<>>

\* C31: a run of find_toi that went as far as connecting its client has
\* awaited client.disconnect() by the time it ends, whichever way it ends:
\* results listed, no matches, an error while scanning, or a client.start
\* that raised or used up its retries.
C31_ConnectionReleased ==
    (fpc = "exited" /\ env = "ok") => disconnects >= 1

(***************************************************************************)
(* Claims about retry_with_backoff                                         *)
(***************************************************************************)
\* the transient condition as the specification words it: an
\* sqlite3.OperationalError whose text contains 'database is locked'
LockCondition(e) ==
    /\ e # NoError
    /\ e.type = "OperationalError"
    /\ Contains(e.msg, LockedText)

\* C9: with a budget of N >= 1 attempts, a call that returns has returned the
\* success value of the operation after k < N lock failures and exactly k+1
\* invocations, without raising; N lock failures in a row make it raise the
\* last lock error after exactly N invocations.
C9_RetryBudget ==
    max_retries >= 1 =>
        /\ failures <= max_retries
        /\ rpc = "returned" =>
              /\ retval = SuccessValue
              /\ raised = NoError
              /\ failures < max_retries
              /\ calls = failures + 1
        /\ failures = max_retries =>
              /\ rpc = "raised"
              /\ LockCondition(raised)
              /\ raised = lastError
              /\ calls = max_retries
        /\ (rpc = "raised" /\ LockCondition(raised)) => failures = max_retries

\* C9 witness: four lock failures, then success on the fifth attempt of the
\* default budget of five
C9_Witness ==
    /\ max_retries = DefaultMaxRetries
    /\ rpc = "returned"
    /\ failures = DefaultMaxRetries - 1
    /\ calls = DefaultMaxRetries
    /\ retval = SuccessValue

\* a failure outside the lock condition is the exception that left the
\* function, with no await and no sleep after the lock failures before it
C10_Inv ==
    (lastError # NoError /\ ~LockCondition(lastError)) =>
        /\ rpc = "raised"
        /\ raised = lastError
        /\ calls = failures + 1
        /\ Len(slept) = failures

\* C10: a failure that is not the lock condition leaves retry_with_backoff at
\* once, at whatever attempt it occurs: it is the exception raised, the
\* operation was invoked once more than the lock failures before it, no delay
\* was slept for it, and nothing is invoked or slept afterwards.
C10_NonTransientPropagates ==
    /\ []C10_Inv
    /\ [][rpc = "raised" => UNCHANGED <<calls, slept, attempt>>]_vars

\* C10 witness: two lock failures were retried, then another failure class
\* occurred on the third attempt
C10_Witness ==
    /\ rpc = "raised"
    /\ ~LockCondition(raised)
    /\ raised.type = "OperationalError"
    /\ failures = 2
    /\ calls = 3

\* 2 to the power n
RECURSIVE PowerOfTwo(_)
PowerOfTwo(n) == IF n = 0 THEN 1 ELSE 2 * PowerOfTwo(n - 1)

\* C11: the k-th delay slept is initial_delay * 2^(k-1); a delay follows a
\* lock failure only when another attempt follows it, so a call that ended
\* after c invocations slept c-1 times, and a call that exhausted a budget of
\* N >= 1 attempts slept exactly N-1 times, never after the last failure.
C11_BackoffSchedule ==
    /\ \A k \in 1..Len(slept) : slept[k] = initial_delay * PowerOfTwo(k - 1)
    /\ Len(slept) <= failures
    /\ rpc = "loop" => Len(slept) = calls
    /\ (rpc \in {"returned", "raised"} /\ calls > 0) => Len(slept) = calls - 1
    /\ (max_retries >= 1 /\ rpc = "raised" /\ LockCondition(raised)) =>
          /\ failures = max_retries
          /\ Len(slept) = max_retries - 1

\* C11 witness: the default budget of five was exhausted from the default
\* delay of one second: four delays, doubling
C11_Witness ==
    /\ max_retries = DefaultMaxRetries
    /\ initial_delay = DefaultInitialDelay
    /\ rpc = "raised"
    /\ LockCondition(raised)
    /\ failures = DefaultMaxRetries
    /\ slept = <<1, 2, 4, 8>>

\* C29: for every max_retries, 0 and negative values included, a call of
\* retry_with_backoff that has ended has invoked the operation at least once,
\* and one that returned has returned the value of a successful invocation.
C29_AlwaysInvokes ==
    /\ rpc \in {"returned", "raised"} => calls >= 1
    /\ rpc = "returned" => retval = SuccessValue

(***************************************************************************)
(* Claims about the helper functions                                       *)
(***************************************************************************)
\* the predicate the claim describes: one of the keyword tokens, a locale
\* token and the date in one of its encodings occur in the name, whatever
\* the case of the letters
DescribedMatch(kws, date_str, fname) ==
    /\ \E x \in 1..Len(kws) : Contains(Lower(fname), Lower(kws[x]))
    /\ \E t \in {<<"h", "y", "d">>, <<"h", "y", "d", "e", "r", "a", "b", "a", "d">>} :
         Contains(Lower(fname), t)
    /\ LET d == ParseDate(date_str)
           days == { Pad2(d.day), IntToStr(d.day) }
       IN  \E dd \in days, sep \in {"-", ".", "/", " "} :
              Contains(Lower(fname), dd \o <<sep>> \o Pad2(d.month))

\* C24: for every keyword list and every valid date the compiled predicate
\* accepts a file name exactly when one of the supplied keyword tokens, a
\* locale token and the date in an accepted encoding occur in it.
C24_MatcherIsThePredicate ==
    (fn_call.fn = "compile_matchers" /\ fn_result # NoResult /\ ValidDate(fn_call.date_str)) =>
        fn_result.value = DescribedMatch(fn_call.keywords, fn_call.date_str, fn_call.fname)

C30_KeysDoNotCollide ==
    (fn_call.fn = "cache_key" /\ fn_result # NoResult /\ fn_call.a # fn_call.b) =>
        fn_result.key_a # fn_result.key_b

(***************************************************************************)
(* Claims about the window of toi_gui.py                                   *)
(***************************************************************************)
\* the subprocess of search t is running, its Stop button callback has run,
\* the Stop button is enabled and self.process is that subprocess
Stoppable(t) ==
    /\ procs[t] = "running"
    /\ t \in stop_enabled
    /\ stop_btn = "normal"
    /\ self_process = t

\* a step that leaves the subprocess of a stoppable search running leaves
\* the search stoppable (pressing Stop ends the subprocess in the same step)
StopKept ==
    \A t \in ThreadIds :
        (Stoppable(t) /\ procs'[t] = "running") =>
            (stop_btn' = "normal" /\ self_process' = t)

\* a queued callback is about to enable one of the two buttons
ButtonPending ==
    \E n \in 1..Len(after_queue) : after_queue[n].cb \in {"stop_normal", "search_normal"}

\* a search runs whose Stop button had been enabled, both buttons are
\* disabled and nothing queued will enable either
Stranded ==
    /\ \E t \in ThreadIds : procs[t] = "running" /\ t \in stop_enabled
    /\ stop_btn = "disabled"
    /\ search_button = "disabled"
    /\ ~ButtonPending

\* C32: under every interleaving of Start Search, Stop Search and Clear All
\* with the search threads, a running search whose Stop button was enabled
\* keeps the button enabled and self.process bound to its subprocess until
\* the subprocess ends or Stop is pressed, and no state is reached in which
\* a search runs while the user can neither stop it nor start another.
C32_StopProtocol == [](~Stranded) /\ [][StopKept]_vars
====
